---- MODULE Spec2Model ----
(***************************************************************************)
(* Model of the In-Your-Face rendering core: indicator normalisation,      *)
(* hashing / seeded randomness, the region catalog and point resolution.   *)
(*                                                                         *)
(* Numbers.  JavaScript numbers that hold fractions are modelled exactly:  *)
(* a magnitude is a rational [n, d] with d > 0, compared by cross          *)
(* multiplication.  32-bit words are pairs <<hi, lo>> of 16-bit halves so   *)
(* that every intermediate product stays inside the checker's integers.    *)
(***************************************************************************)
EXTENDS Integers, Sequences, FiniteSets, TLC

VARIABLES
    indicators,   \* Controls: the indicator list (current, min, max of each)
    mapped,       \* Controls: the "Mapped Influence" shown for each indicator
    gens,         \* the private seed cell of each generator closure
    outs,         \* the outputs each generator has returned so far
    shArray,      \* a caller's list handed to seededShuffle
    shSeed,       \* the seed handed to seededShuffle
    shResult,     \* the list seededShuffle returned last
    shCalls,      \* how often seededShuffle has been called on (shArray, shSeed)
    photo,        \* App: the uploaded photo string (<<>> is null)
    config,       \* App: config.indicators, <<>> for null and <<list>> for a list
    shuffleKey,   \* App: the key that remounts PreviewCanvas
    seed,         \* PreviewCanvas: useMemo of hashString(photo)
    regionMap,    \* PreviewCanvas: useMemo of the region -> indicator map
    frame,        \* the render in progress: its mode, indicators, map and regions
    pixel,        \* the pixel loop: the next (x, y), or done
    regionId,     \* the region resolved for the last pixel and its normalised point
    pipPolygon,   \* a vertex list handed to isPointInPolygon
    pipPoint,     \* the point handed to isPointInPolygon
    pipInside,    \* what isPointInPolygon returned for pipPoint, one call per rotation
    faceRegions,  \* the FACE_REGIONS objects as they are now
    dynOut,       \* the last call of getDynamicRegions: its regionMap and result
    dynCalls,     \* calls of getDynamicRegions made so far
    warp,         \* the call of warpCaricature in progress: arguments and promise
    ctxLog,       \* what the call did to its canvas, one entry per region
    generation,   \* which of the two PreviewCanvas components is mounted
    isProcessing, \* PreviewCanvas state
    isExporting,  \* PreviewCanvas state
    lineArt,      \* PreviewCanvas state: the invocation whose art is stored, 0 for null
    canvas,       \* the visible canvas: whose pixel layer, whose overlays on top
    renders,      \* every render invocation's position
    exportTask,   \* the position of the exportPNG call
    console,      \* console.log / console.error output
    sample,       \* one pixel position with the preview's and the export's decision
    nearest,      \* the last call of findNearestSeed: point, seeds, result
    seedCalls,    \* the calls of generateClippedSeeds so far: arguments and result
    colour,       \* the last call of getIndicatorColor: arguments and result
    neutral,      \* the last call of getDynamicRegions computed in doubles
    renderedImage, \* App: the snapshot image shown instead of a render, or null
    snapshots,    \* App: the snapshot list of the gallery
    captures,     \* how many snapshots have been captured so far
    inFlight      \* the renders started whose final composite is yet to load

normVars == <<indicators, mapped>>
rngVars == <<gens, outs>>
shuffleVars == <<shArray, shSeed, shResult, shCalls>>
mapVars == <<photo, config, shuffleKey, seed, regionMap>>
regionVars == <<frame, pixel, regionId>>
polyVars == <<pipPolygon, pipPoint, pipInside>>
dynVars == <<faceRegions, dynOut, dynCalls>>
warpVars == <<warp, ctxLog>>
pipeVars == <<generation, isProcessing, isExporting, lineArt, canvas, renders,
              exportTask, console>>
cmpVars == <<sample>>
nearVars == <<nearest>>
seedVars == <<seedCalls>>
colourVars == <<colour>>
neutralVars == <<neutral>>
galleryVars == <<renderedImage, snapshots, captures, inFlight>>
vars == <<indicators, mapped, gens, outs, shArray, shSeed, shResult, shCalls,
          photo, config, shuffleKey, seed, regionMap, frame, pixel, regionId,
          pipPolygon, pipPoint, pipInside, faceRegions, dynOut, dynCalls,
          warp, ctxLog, generation, isProcessing, isExporting, lineArt, canvas,
          renders, exportTask, console, sample, nearest, seedCalls, colour,
          neutral, renderedImage, snapshots, captures, inFlight>>

(***************************************************************************)
(* Rationals                                                               *)
(***************************************************************************)
Rat(n, d) == [n |-> n, d |-> d]
RatZero == Rat(0, 1)
RatOne == Rat(1, 1)
RatHalf == Rat(1, 2)
RatLE(a, b) == a.n * b.d <= b.n * a.d
RatEq(a, b) == a.n * b.d = b.n * a.d
\* Math.min / Math.max on two numbers
MathMin(a, b) == IF RatLE(a, b) THEN a ELSE b
MathMax(a, b) == IF RatLE(a, b) THEN b ELSE a

(***************************************************************************)
(* utils/indicators.ts                                                     *)
(***************************************************************************)
\* bound on the slider values drawn for current, min and max
MaxVal == 2
Values == (0 - MaxVal)..MaxVal
Indicator == [current : Values, min : Values, max : Values]

\* the quotient (current - min) / (max - min), for max > min
Quotient(current, min, max) == Rat(current - min, max - min)

\* a normalisation that forgets the clamp
NormalizeUnclamped(indicator) ==
    IF indicator.max <= indicator.min THEN RatHalf
    ELSE Quotient(indicator.current, indicator.min, indicator.max)

\* a normalisation that measures from the wrong end of the range
NormalizeInverted(indicator) ==
    IF indicator.max <= indicator.min THEN RatHalf
    ELSE MathMax(RatZero, MathMin(RatOne,
            Quotient(indicator.max - indicator.current + indicator.min,
                     indicator.min, indicator.max)))

normalizeIndicator(indicator) ==
    LET current == indicator.current
        min == indicator.min
        max == indicator.max
    IN  IF max <= min THEN RatHalf
        ELSE LET normalized == Quotient(current, min, max)
             IN  MathMax(RatZero, MathMin(RatOne, normalized))

\* Controls renders normalizeIndicator(ind) for every indicator of its list
MappedInfluence(inds) == [i \in DOMAIN inds |-> normalizeIndicator(inds[i])]

(***************************************************************************)
(* 32-bit words.  A word is <<hi, lo>>, two 16-bit halves.  The bitwise    *)
(* operators of JavaScript work on the 32-bit pattern of their operands    *)
(* (ToInt32 / ToUint32), which is what a word holds.                       *)
(***************************************************************************)
Byte8 == 16 * 16
Half16 == Byte8 * Byte8
Word(hi, lo) == <<hi, lo>>
WordZero == Word(0, 0)
IsWord(w) == w[1] \in 0..(Half16 - 1) /\ w[2] \in 0..(Half16 - 1)

RECURSIVE Pow2Rec(_)
Pow2Rec(k) == IF k = 0 THEN 1 ELSE 2 * Pow2Rec(k - 1)
Pow2Table == [k \in 0..16 |-> Pow2Rec(k)]
Pow2(k) == Pow2Table[k]

\* bitwise exclusive or / or of two numbers of the given number of bits
RECURSIVE XorBits(_, _, _)
XorBits(a, b, bits) ==
    IF bits = 0 THEN 0
    ELSE (((a % 2) + (b % 2)) % 2) + 2 * XorBits(a \div 2, b \div 2, bits - 1)

RECURSIVE OrBits(_, _, _)
OrBits(a, b, bits) ==
    IF bits = 0 THEN 0
    ELSE (IF a % 2 = 1 \/ b % 2 = 1 THEN 1 ELSE 0)
         + 2 * OrBits(a \div 2, b \div 2, bits - 1)

\* the same, tabulated once for bytes and applied to the two bytes of a half
XorByte == [a \in 0..(Byte8 - 1) |-> [b \in 0..(Byte8 - 1) |-> XorBits(a, b, 8)]]
OrByte == [a \in 0..(Byte8 - 1) |-> [b \in 0..(Byte8 - 1) |-> OrBits(a, b, 8)]]
Xor16(a, b) ==
    XorByte[a \div Byte8][b \div Byte8] * Byte8 + XorByte[a % Byte8][b % Byte8]
Or16(a, b) ==
    OrByte[a \div Byte8][b \div Byte8] * Byte8 + OrByte[a % Byte8][b % Byte8]

\* a ^ b
WXor(a, b) == Word(Xor16(a[1], b[1]), Xor16(a[2], b[2]))
\* a | k for a small constant k (k < 2^16)
WOrSmall(a, k) == Word(a[1], Or16(a[2], k))
\* a >>> k, 0 < k < 16
WShr(a, k) ==
    Word(a[1] \div Pow2(k),
         (a[2] \div Pow2(k)) + (a[1] % Pow2(k)) * Pow2(16 - k))
\* a << k, 0 < k < 16
WShl(a, k) ==
    Word(((a[1] % Pow2(16 - k)) * Pow2(k)) + (a[2] \div Pow2(16 - k)),
         (a[2] % Pow2(16 - k)) * Pow2(k))
\* (a + b) mod 2^32
WAdd(a, b) ==
    LET lo == a[2] + b[2]
    IN  Word((a[1] + b[1] + (lo \div Half16)) % Half16, lo % Half16)
\* (a - b) mod 2^32
WSub(a, b) ==
    LET lo == a[2] - b[2] + Half16
    IN  Word((a[1] - b[1] + Half16 - (IF lo < Half16 THEN 1 ELSE 0)) % Half16,
             lo % Half16)
\* (a * b) mod 2^16 for 16-bit a, b
MulLo16(a, b) == ((a * (b % Byte8)) + ((a * (b \div Byte8)) % Byte8) * Byte8) % Half16
\* Math.imul(a, b): the low 32 bits of the product
WMul(a, b) ==
    LET p0 == a[2] * (b[2] % Byte8)
        p1 == a[2] * (b[2] \div Byte8)
        losum == (p0 % Half16) + (p1 % Byte8) * Byte8
        hi0 == (p0 \div Half16) + (p1 \div Byte8) + (losum \div Half16)
    IN  Word((hi0 + MulLo16(a[1], b[2]) + MulLo16(a[2], b[1])) % Half16,
             losum % Half16)
\* the word of a small non-negative integer
WordOf(k) == Word(k \div Half16, k % Half16)

(***************************************************************************)
(* JavaScript integers that come out of 32-bit words: a sign and a         *)
(* magnitude of up to 2^32, kept as a word so that 2^31 is representable.  *)
(***************************************************************************)
\* the value of a word read as a signed 32-bit integer (the result of |, ^, <<)
Int32Value(w) ==
    IF w[1] >= Half16 \div 2
    THEN [neg |-> TRUE, mag |-> WSub(WordZero, w)]
    ELSE [neg |-> FALSE, mag |-> w]
\* the value of a word read as an unsigned 32-bit integer (x >>> 0)
Uint32Value(w) == [neg |-> FALSE, mag |-> w]
\* Math.abs
MathAbs(v) == [neg |-> FALSE, mag |-> v.mag]
\* ToInt32 / ToUint32 of such a value: its 32-bit pattern
ToWord(v) == IF v.neg THEN WSub(WordZero, v.mag) ELSE v.mag
IsNonNegative(v) == v.neg = FALSE /\ IsWord(v.mag)

(***************************************************************************)
(* utils/hashing.ts.  A string is the sequence of its UTF-16 code units.   *)
(***************************************************************************)
\* the loop of hashString from index i on: hash = ((hash << 5) - hash) + char,
\* then hash |= 0.  The sum is exact before |= 0 wraps it to 32 bits.
RECURSIVE hashLoop(_, _, _)
hashLoop(str, i, hash) ==
    IF i > Len(str) THEN hash
    ELSE LET char == str[i]
         IN  hashLoop(str, i + 1,
                      WAdd(WSub(WShl(hash, 5), hash), WordOf(char)))

\* a hash that returns the wrapped value without Math.abs
hashStringSigned(str) == Int32Value(hashLoop(str, 1, WordZero))

hashString(str) == MathAbs(Int32Value(hashLoop(str, 1, WordZero)))

\* 0x6D2B79F5
MulberryIncrement == Word(27947, 31221)

\* createRNG(seed): the closure's private cell.  The cell is a double that
\* grows by 0x6D2B79F5 per call; every use of it is through ToInt32, so the
\* cell is kept modulo 2^32 (exact while the double is below 2^53).
createRNG(s) == ToWord(s)

\* one call of the closure: the new cell and the returned value, which is
\* value / 4294967296
rngCall(cell) ==
    LET s == WAdd(cell, MulberryIncrement)                         \* t = seed += ...
        t1 == WMul(WXor(s, WShr(s, 15)), WOrSmall(s, 1))           \* Math.imul(t ^ t >>> 15, t | 1)
        t2 == WXor(t1, WAdd(t1, WMul(WXor(t1, WShr(t1, 7)), WOrSmall(t1, 61))))
    IN  [cell |-> s, value |-> Uint32Value(WXor(t2, WShr(t2, 14)))]

\* Math.floor(r * n) for a generator output r = value / 2^32 and a small
\* positive integer n (the product is exact in a double)
FloorTimes(value, n) ==
    ((value.mag[1] * n) + ((value.mag[2] * n) \div Half16)) \div Half16

\* the Fisher-Yates loop, i counting down as in the code (0-based index i)
RECURSIVE shuffleLoop(_, _, _)
shuffleLoop(result, cell, i) ==
    IF i <= 0 THEN result
    ELSE LET call == rngCall(cell)
             j == FloorTimes(call.value, i + 1)
         IN  shuffleLoop([result EXCEPT ![i + 1] = result[j + 1],
                                        ![j + 1] = result[i + 1]],
                         call.cell, i - 1)

\* a shuffle that works on the caller's array instead of a copy
seededShuffleInPlace(arr, s) ==
    LET shuffled == shuffleLoop(arr, createRNG(s), Len(arr) - 1)
    IN  [array |-> shuffled, result |-> shuffled]

\* seededShuffle(array, seed): the returned list (result), and the caller's
\* array as it is after the call
seededShuffle(arr, s) ==
    LET copy == arr                                                \* result = [...array]
        rng == createRNG(s)
    IN  [array |-> arr, result |-> shuffleLoop(copy, rng, Len(copy) - 1)]

(***************************************************************************)
(* MOCK_INDICATORS.  current, min and max are written in tenths (2.5 is    *)
(* 25); normalizeIndicator is a ratio of differences, so the unit cancels. *)
(***************************************************************************)
Ind(id, current, min, max, category) ==
    [id |-> id, current |-> current, min |-> min, max |-> max, category |-> category]

MOCK_INDICATORS == <<
    Ind("gdp", 25, -50, 100, "growth"),
    Ind("sentiment", 720, 500, 1200, "social"),
    Ind("infl", 32, 0, 150, "stability"),
    Ind("inflation_vol", 45, 0, 100, "stability"),
    Ind("unemp", 41, 0, 200, "social"),
    Ind("gini", 320, 200, 600, "social") >>

(***************************************************************************)
(* logic/regions.ts: the region catalog.  Coordinates are fixed-point: a   *)
(* coordinate c of the source is the integer c * Unit, Unit = 10000.       *)
(***************************************************************************)
Cent == 100
Unit == Cent * Cent
\* the point (x/100, y/100)
Pt(x, y) == [x |-> x * Cent, y |-> y * Cent]

Region(id, tier, priority, polygon) ==
    [id |-> id, tier |-> tier, priority |-> priority, polygon |-> polygon]

FACE_REGIONS == <<
    Region("Forehead", "primary", 1, <<Pt(30, 10), Pt(70, 10), Pt(80, 25), Pt(20, 25)>>),
    Region("Eyes", "primary", 2, <<Pt(20, 25), Pt(80, 25), Pt(80, 45), Pt(20, 45)>>),
    Region("Nose", "primary", 3, <<Pt(40, 25), Pt(60, 25), Pt(65, 60), Pt(35, 60)>>),
    Region("Mouth", "primary", 4, <<Pt(30, 60), Pt(70, 60), Pt(75, 75), Pt(25, 75)>>),
    Region("Background", "primary", 0, <<Pt(0, 0), Pt(100, 0), Pt(100, 100), Pt(0, 100)>>),
    Region("Cheeks", "secondary", 5, <<Pt(15, 25), Pt(35, 60), Pt(65, 60), Pt(85, 25)>>),
    Region("Chin", "secondary", 6, <<Pt(30, 75), Pt(70, 75), Pt(50, 90)>>),
    Region("Hair", "auxiliary", 7,
           <<Pt(10, 0), Pt(90, 0), Pt(100, 50), Pt(90, 30), Pt(10, 30), Pt(0, 50)>>),
    Region("Neck", "auxiliary", 8, <<Pt(30, 85), Pt(70, 85), Pt(70, 100), Pt(30, 100)>>) >>

RegionType == {FACE_REGIONS[i].id : i \in DOMAIN FACE_REGIONS}

\* the ids of a list of regions, in order
Ids(regions) == [i \in DOMAIN regions |-> regions[i].id]

\* an unlock rule that opens the second tier one indicator early
getUnlockedRegionsEarly(indicatorCount) ==
    LET Keep(region) ==
            IF indicatorCount < 3 THEN region.tier = "primary"
            ELSE IF indicatorCount < 6
                 THEN region.tier = "primary" \/ region.tier = "secondary"
                 ELSE TRUE
    IN  SelectSeq(FACE_REGIONS, Keep)

getUnlockedRegions(indicatorCount) ==
    LET Keep(region) ==
            IF indicatorCount <= 3 THEN region.tier = "primary"
            ELSE IF indicatorCount <= 6
                 THEN region.tier = "primary" \/ region.tier = "secondary"
                 ELSE TRUE                                  \* 7+ unlocks all
    IN  SelectSeq(FACE_REGIONS, Keep)

\* px < num / den + xi for den # 0, decided exactly: the quotient is never
\* rounded, the comparison is multiplied out by den
LessThanCrossing(px, num, den, xi) ==
    IF den > 0 THEN (px - xi) * den < num ELSE (px - xi) * den > num

\* the loop of isPointInPolygon from the 0-based vertex i on, j the vertex before
RECURSIVE crossingLoop(_, _, _, _, _)
crossingLoop(point, polygon, i, j, inside) ==
    IF i >= Len(polygon) THEN inside
    ELSE LET xi == polygon[i + 1].x
             yi == polygon[i + 1].y
             xj == polygon[j + 1].x
             yj == polygon[j + 1].y
             intersect ==
                 /\ (yi > point.y) # (yj > point.y)
                 /\ LessThanCrossing(point.x, (xj - xi) * (point.y - yi), yj - yi, xi)
         IN  crossingLoop(point, polygon, i + 1, i,
                          IF intersect THEN ~inside ELSE inside)

\* a ray cast that pairs the first vertex with itself, so that the edge from
\* the last vertex back to the first is never counted
isPointInPolygonOpen(point, polygon) ==
    crossingLoop(point, polygon, 0, 0, FALSE)

isPointInPolygon(point, polygon) ==
    crossingLoop(point, polygon, 0, Len(polygon) - 1, FALSE)

\* (a, b) => b.priority - a.priority
comparePriority(a, b) == b.priority - a.priority

\* [...regions].sort(comparePriority): Array.prototype.sort is stable; each
\* element is inserted behind the elements that do not sort after it
RECURSIVE insertSorted(_, _)
insertSorted(sorted, r) ==
    IF sorted = <<>> THEN <<r>>
    ELSE IF comparePriority(r, Head(sorted)) < 0 THEN <<r>> \o sorted
         ELSE <<Head(sorted)>> \o insertSorted(Tail(sorted), r)

RECURSIVE sortLoop(_, _)
sortLoop(regions, sorted) ==
    IF regions = <<>> THEN sorted
    ELSE sortLoop(Tail(regions), insertSorted(sorted, Head(regions)))

\* the first region of the list whose polygon contains the point
RECURSIVE firstContaining(_, _)
firstContaining(point, sorted) ==
    IF sorted = <<>> THEN "Background"
    ELSE IF isPointInPolygon(point, Head(sorted).polygon) THEN Head(sorted).id
         ELSE firstContaining(point, Tail(sorted))

\* dynamicRegions || getUnlockedRegions(indicatorCount): dynamicRegions is <<>>
\* when the argument is left out (the three-argument getRegionAt) and <<list>>
\* when it is supplied; any array, the empty one too, is truthy
candidateRegions(indicatorCount, dynamicRegions) ==
    IF dynamicRegions # <<>> THEN dynamicRegions[1]
    ELSE getUnlockedRegions(indicatorCount)

\* a resolution that walks the candidates in the order given, unsorted
getRegionAtUnsorted(x, y, indicatorCount, dynamicRegions) ==
    firstContaining([x |-> x, y |-> y],
                    candidateRegions(indicatorCount, dynamicRegions))

\* getRegionAt(x, y, indicatorCount, dynamicRegions?)
getRegionAt(x, y, indicatorCount, dynamicRegions) ==
    LET sorted == sortLoop(candidateRegions(indicatorCount, dynamicRegions), <<>>)
    IN  firstContaining([x |-> x, y |-> y], sorted)

(***************************************************************************)
(* components/PreviewCanvas.tsx: the memoised seed and region map.         *)
(* An optional value is <<>> (null / undefined) or <<v>>.                  *)
(***************************************************************************)
None == <<>>
Some(v) == <<v>>
NumberZero == Uint32Value(WordZero)

\* useMemo(() => photo ? hashString(photo) : 0, [photo])
seedMemo(p) == IF p # <<>> THEN hashString(p) ELSE NumberZero

\* FACE_REGIONS.forEach((region, i) => map[region.id] = shuffled[i % shuffled.length]),
\* from the 0-based index i on; for an empty list i % 0 is NaN and the entry undefined
RECURSIVE mapLoop(_, _, _)
mapLoop(map, shuffled, i) ==
    IF i >= Len(FACE_REGIONS) THEN map
    ELSE mapLoop([map EXCEPT ![FACE_REGIONS[i + 1].id] =
                      IF Len(shuffled) = 0 THEN None
                      ELSE Some(shuffled[(i % Len(shuffled)) + 1])],
                 shuffled, i + 1)

\* {} : every lookup is undefined
EmptyMap == [id \in RegionType |-> None]

\* a round robin that starts one element late
regionMapShifted(p, cfg, s) ==
    IF p = <<>> \/ cfg = None THEN [map |-> EmptyMap, indicators |-> cfg]
    ELSE LET sh == seededShuffle(cfg[1], s)
             n == Len(sh.result)
         IN  [map |-> [id \in RegionType |->
                          LET i == CHOOSE k \in DOMAIN FACE_REGIONS : FACE_REGIONS[k].id = id
                          IN  IF n = 0 THEN None ELSE Some(sh.result[(i % n) + 1])],
              indicators |-> Some(sh.array)]

\* a loop that leaves Background out of the map
regionMapFaceOnly(p, cfg, s) ==
    IF p = <<>> \/ cfg = None THEN [map |-> EmptyMap, indicators |-> cfg]
    ELSE LET sh == seededShuffle(cfg[1], s)
         IN  [map |-> [mapLoop(EmptyMap, sh.result, 0) EXCEPT !["Background"] = None],
              indicators |-> Some(sh.array)]

\* the regionMap memo for photo p, config.indicators cfg and seed s: the map,
\* and config.indicators as the call of seededShuffle leaves it
regionMapMemo(p, cfg, s) ==
    IF p = <<>> \/ cfg = None THEN [map |-> EmptyMap, indicators |-> cfg]
    ELSE LET sh == seededShuffle(cfg[1], s)
         IN  [map |-> mapLoop(EmptyMap, sh.result, 0), indicators |-> Some(sh.array)]

(***************************************************************************)
(* logic/regions.ts: getDynamicRegions.  The arithmetic on coordinates is  *)
(* fixed-point: every product and quotient is rounded to the nearest       *)
(* 1/Unit, as a double rounds to its own precision.  Comparisons of the    *)
(* magnitude with 0.5 and 0.6 are made on the exact magnitude.             *)
(***************************************************************************)
\* a / b to the nearest integer, b > 0
RoundDiv(a, b) == (2 * a + b) \div (2 * b)
\* the fixed-point product of two fixed-point numbers
FxMul(a, b) == RoundDiv(a * b, Unit)
\* the fixed-point value of a rational magnitude
FxOfRat(r) == RoundDiv(r.n * Unit, r.d)
\* the fixed-point value of c / 100
Fx(c) == c * Cent

\* Math.PI
MathPI == 31416
\* Math.cos and Math.sin for the angles of at most 15 degrees that occur, by
\* their Taylor polynomials, which are exact to 1/Unit on that range
MathCos(x) ==
    LET x2 == FxMul(x, x)
    IN  Unit - RoundDiv(x2, 2) + RoundDiv(FxMul(x2, x2), 24)
MathSin(x) ==
    LET x2 == FxMul(x, x)
    IN  x - RoundDiv(FxMul(x2, x), 6) + RoundDiv(FxMul(FxMul(x2, x2), x), 120)

\* polygon.reduce((acc, p) => acc + p.x, 0) / polygon.length, and the same for y
RECURSIVE SumX(_)
SumX(polygon) == IF polygon = <<>> THEN 0 ELSE Head(polygon).x + SumX(Tail(polygon))
RECURSIVE SumY(_)
SumY(polygon) == IF polygon = <<>> THEN 0 ELSE Head(polygon).y + SumY(Tail(polygon))
CenterX(polygon) == RoundDiv(SumX(polygon), Len(polygon))
CenterY(polygon) == RoundDiv(SumY(polygon), Len(polygon))
\* polygon.reduce((min, p) => Math.min(min, p.y), 1)
RECURSIVE MinY(_, _)
MinY(polygon, min) ==
    IF polygon = <<>> THEN min
    ELSE MinY(Tail(polygon), IF Head(polygon).y < min THEN Head(polygon).y ELSE min)

\* a stretch that shifts the forehead down instead of up
warpForeheadDown(polygon, m) ==
    LET shiftY == FxMul(m - Fx(50), Fx(15))
        scaleY == Unit + FxMul(m - Fx(50), Fx(60))
        topY == MinY(polygon, Unit)
    IN  [i \in DOMAIN polygon |->
            [x |-> polygon[i].x,
             y |-> topY + FxMul(polygon[i].y - topY, scaleY) + shiftY]]

\* Forehead: vertical stretch about the top edge and a shift upwards
warpForehead(polygon, m) ==
    LET shiftY == FxMul(m - Fx(50), Fx(15))
        scaleY == Unit + FxMul(m - Fx(50), Fx(60))
        topY == MinY(polygon, Unit)
    IN  [i \in DOMAIN polygon |->
            [x |-> polygon[i].x,
             y |-> topY + FxMul(polygon[i].y - topY, scaleY) - shiftY]]

\* Mouth: non-uniform scaling about the centre
warpMouth(polygon, m) ==
    LET scaleX == Fx(60) + FxMul(m, Fx(80))
        scaleY == Fx(80) + FxMul(m, Fx(40))
        centerX == CenterX(polygon)
        centerY == CenterY(polygon)
    IN  [i \in DOMAIN polygon |->
            [x |-> centerX + FxMul(polygon[i].x - centerX, scaleX),
             y |-> centerY + FxMul(polygon[i].y - centerY, scaleY)]]

\* a skew that adds sideFactor to the increment instead of scaling by it
chinSkewJump(magnitude, p) ==
    LET asymmetric == ~RatLE(magnitude, RatHalf)
        sideHalves == IF ~asymmetric THEN 2 ELSE IF p.x > Fx(50) THEN 3 ELSE 1
    IN  Rat((p.y - Fx(75)) * (2 * magnitude.n - magnitude.d) * 2
                + (IF asymmetric THEN sideHalves * Unit * 10 * magnitude.d ELSE 0),
            20 * magnitude.d)

\* Chin, one vertex p: the exact increment of p.x in units of 1/Unit,
\* (p.y - 0.75) * skewX [* sideFactor] with skewX = (magnitude - 0.5) * 0.2;
\* sideFactor (1.5 right of the middle, 0.5 elsewhere) is applied only once
\* the magnitude exceeds 0.5
chinSkew(magnitude, p) ==
    LET asymmetric == ~RatLE(magnitude, RatHalf)
        sideHalves == IF ~asymmetric THEN 2 ELSE IF p.x > Fx(50) THEN 3 ELSE 1
    IN  Rat((p.y - Fx(75)) * (2 * magnitude.n - magnitude.d) * sideHalves,
            20 * magnitude.d)

\* Chin: skew, more severe on one side once the magnitude exceeds 0.5
warpChin(polygon, magnitude, m) ==
    [i \in DOMAIN polygon |->
        LET skew == chinSkew(magnitude, polygon[i])
        IN  [x |-> polygon[i].x + RoundDiv(skew.n, skew.d), y |-> polygon[i].y]]

\* Eyes, Cheeks: rotation about the centre by (magnitude - 0.5) * 30 degrees
\* (angleDeg * PI / 180 is (magnitude - 0.5) * PI / 6), with an asymmetric
\* scaling in x once the magnitude exceeds 0.6
warpTilt(polygon, magnitude, m) ==
    LET angleRad == RoundDiv((m - Fx(50)) * MathPI, 6 * Unit)
        cos == MathCos(angleRad)
        sin == MathSin(angleRad)
        centerX == CenterX(polygon)
        centerY == CenterY(polygon)
    IN  [i \in DOMAIN polygon |->
            LET dx == polygon[i].x - centerX
                dy == polygon[i].y - centerY
                rx == centerX + (FxMul(dx, cos) - FxMul(dy, sin))
                ry == centerY + (FxMul(dx, sin) + FxMul(dy, cos))
                scaleFactor == IF polygon[i].x < Fx(50) THEN Fx(120) ELSE Fx(90)
            IN  IF ~RatLE(magnitude, Rat(3, 5))
                THEN [x |-> centerX + FxMul(rx - centerX, scaleFactor), y |-> ry]
                ELSE [x |-> rx, y |-> ry]]

\* the callback of FACE_REGIONS.map: the dynamic region made of one region
\* and the regionMap entry of its id
dynamicRegion(region, indicator) ==
    IF indicator = None THEN region
    ELSE LET magnitude == normalizeIndicator(indicator[1])
             m == FxOfRat(magnitude)
             shiftedPolygon ==
                 IF region.id = "Forehead" THEN warpForehead(region.polygon, m)
                 ELSE IF region.id = "Mouth" THEN warpMouth(region.polygon, m)
                 ELSE IF region.id = "Chin"
                      THEN warpChin(region.polygon, magnitude, m)
                 ELSE IF region.id = "Eyes" \/ region.id = "Cheeks"
                      THEN warpTilt(region.polygon, magnitude, m)
                 ELSE region.polygon
         IN  [region EXCEPT !.polygon = shiftedPolygon]

\* a distortion that moves the vertices of the region it is given instead of
\* the vertices of a copy
getDynamicRegionsInPlace(templates, map) ==
    LET moved == [k \in DOMAIN templates |->
                     dynamicRegion(templates[k], map[templates[k].id])]
    IN  [templates |-> moved, result |-> moved]

\* one call of getDynamicRegions with the catalog objects as they are
\* (templates): the list returned (result) and the catalog objects after the
\* call.  shiftedPolygon is made of copies of the points, { ...p }, so the
\* forEach loops write to the copies
getDynamicRegionsCall(templates, map) ==
    [templates |-> templates,
     result |-> [k \in DOMAIN templates |->
                    dynamicRegion(templates[k], map[templates[k].id])]]

\* getDynamicRegions(indicators, regionMap); the first parameter is not read
getDynamicRegions(inds, map) == getDynamicRegionsCall(FACE_REGIONS, map).result

(***************************************************************************)
(* Bounds and the input sets drawn from them                               *)
(***************************************************************************)
\* longest photo string
MaxPhotoLen == 5
\* most calls made to one generator, or to seededShuffle on one input
MaxCalls == 3
\* most Shuffle clicks between two resets
MaxShuffleKey == 1

\* width and height of the canvas in pixels (512 on screen, 2048 exported)
CanvasSize == 20

\* the points tested lie on a grid of GridSize steps across the unit square
GridSize == 10

\* most calls of getDynamicRegions in one run
MaxDynCalls == 2

\* most render invocations in one run
MaxRenders == 2

\* code units of the photo strings: an ASCII letter and the largest code unit
PhotoAlphabet == {97, 65535}
Photos == UNION {[1..n -> PhotoAlphabet] : n \in 0..MaxPhotoLen}
Seeds == {seedMemo(p) : p \in Photos}

\* the lists Controls can hand over (MOCK_INDICATORS with moved sliders), and
\* shorter lists of the same indicators down to the empty one
IndicatorLists ==
    {SubSeq(MOCK_INDICATORS, 1, n) : n \in 0..Len(MOCK_INDICATORS)}
    \cup {[MOCK_INDICATORS EXCEPT ![1].current = 100]}
ShuffleArrays ==
    IndicatorLists \cup {<<MOCK_INDICATORS[1], MOCK_INDICATORS[1], MOCK_INDICATORS[3]>>}


\* MOCK_INDICATORS with every slider moved to its maximum, or to its minimum
SlidersAt(top) ==
    [i \in DOMAIN MOCK_INDICATORS |->
        [MOCK_INDICATORS[i] EXCEPT !.current = IF top THEN MOCK_INDICATORS[i].max
                                                ELSE MOCK_INDICATORS[i].min]]
\* the config.indicators prop of PreviewCanvas: the lists above, the catalog
\* with every slider at either end, and lists of seven and eight indicators
\* (the prop is an Indicator[] of any length)
RenderLists ==
    IndicatorLists
    \cup {SlidersAt(TRUE), SlidersAt(FALSE)}
    \cup {MOCK_INDICATORS \o SubSeq(MOCK_INDICATORS, 1, n) : n \in 1..2}
\* the photos rendered
RenderPhotos == {<<97>>, <<97, 65535>>}

\* the polygons tested: the catalog's, and the catalog's as getDynamicRegions
\* distorts them with every slider at its maximum
TestPolygons ==
    {FACE_REGIONS[k].polygon : k \in DOMAIN FACE_REGIONS}
    \cup {getDynamicRegions(SlidersAt(TRUE),
                            mapLoop(EmptyMap, SlidersAt(TRUE), 0))[k].polygon :
              k \in DOMAIN FACE_REGIONS}
TestPoints ==
    {[x |-> RoundDiv(i * Unit, GridSize), y |-> RoundDiv(j * Unit, GridSize)] :
        i \in 0..GridSize, j \in 0..GridSize}

\* lists of one indicator, which every region is then mapped to: a slider
\* of range 0..1000 at and around its middle, and gdp at its maximum
ProbeCurrents == {490, 499, 500, 501, 510}
ProbeLists ==
    {<<Ind("inflation_vol", c, 0, 1000, "stability")>> : c \in ProbeCurrents}
    \cup {<<Ind("gdp", 100, -50, 100, "growth")>>}
DynLists == RenderLists \cup ProbeLists
DynPhotos == {p \in Photos : Len(p) \in 1..2}

\* the state of a component no action of the specification touches
NormIdle == indicators = <<>> /\ mapped = <<>>
RngIdle == gens = <<>> /\ outs = <<>>
ShuffleIdle == shArray = <<>> /\ shSeed = NumberZero /\ shResult = <<>> /\ shCalls = 0
MapIdle ==
    /\ photo = <<>> /\ config = None /\ shuffleKey = 0
    /\ seed = NumberZero /\ regionMap = EmptyMap
IdleFrame ==
    [mode |-> "idle", indicators |-> None, regionMap |-> EmptyMap,
     dynamicRegions |-> None]
RegionIdle ==
    /\ frame = IdleFrame
    /\ pixel = [x |-> 0, y |-> 0, done |-> TRUE]
    /\ regionId = None
BlankCanvas == [color |-> 0, overlays |-> <<>>]
PipeIdle ==
    /\ generation = 2
    /\ isProcessing = FALSE /\ isExporting = FALSE
    /\ lineArt = 0
    /\ canvas = BlankCanvas
    /\ renders = [k \in 1..MaxRenders |-> "unstarted"]
    /\ exportTask = "idle"
    /\ console = <<>>
IdleWarp ==
    [status |-> "idle", result |-> "", source |-> <<>>, target |-> <<>>,
     width |-> 0, height |-> 0]
WarpIdle == warp = IdleWarp /\ ctxLog = <<>>
DynIdle == faceRegions = FACE_REGIONS /\ dynOut = None /\ dynCalls = 0
PolyIdle == pipPolygon = <<>> /\ pipPoint = Pt(0, 0) /\ pipInside = <<>>
\* no pixel sampled
SampleIdle == sample = None
\* findNearestSeed not called yet
NearIdle == nearest = None
\* generateClippedSeeds not called yet
SeedIdle == seedCalls = <<>>
\* getIndicatorColor not called yet
ColourIdle == colour = None
\* getDynamicRegions not evaluated in doubles yet
NeutralIdle == neutral = None
\* no snapshot taken, no override image, no render under way
GalleryIdle ==
    renderedImage = None /\ snapshots = <<>> /\ captures = 0 /\ inFlight = <<>>

(***************************************************************************)
(* SpecNorm: Controls and normalizeIndicator                               *)
(***************************************************************************)
NormInit ==
    /\ indicators \in [1..2 -> Indicator]
    /\ mapped = MappedInfluence(indicators)
    /\ RngIdle /\ ShuffleIdle /\ MapIdle /\ RegionIdle /\ PolyIdle /\ DynIdle
    /\ GalleryIdle
    /\ NeutralIdle
    /\ ColourIdle
    /\ SeedIdle
    /\ NearIdle
    /\ SampleIdle
    /\ PipeIdle
    /\ WarpIdle

\* Controls.handleSliderChange(id, value)
handleSliderChange ==
    \E i \in DOMAIN indicators, value \in Values :
        /\ indicators' = [indicators EXCEPT ![i].current = value]
        /\ mapped' = MappedInfluence(indicators')
        /\ UNCHANGED <<rngVars, shuffleVars, mapVars, regionVars, polyVars, dynVars, warpVars,
                   pipeVars, cmpVars, nearVars, seedVars, colourVars,
                   neutralVars, galleryVars>>

NormNext == handleSliderChange

SpecNorm == NormInit /\ [][NormNext]_vars

\* C1: every normalised magnitude lies in [0,1]; it is exactly 0.5 when
\* max <= min and otherwise the quotient (current-min)/(max-min) clamped to [0,1].
C1_NormalizeRange ==
    \A i \in DOMAIN indicators :
        LET ind == indicators[i]
            m == mapped[i]
            q == Quotient(ind.current, ind.min, ind.max)
        IN  /\ RatLE(RatZero, m) /\ RatLE(m, RatOne)
            /\ (ind.max <= ind.min) => m = RatHalf
            /\ (ind.max > ind.min) =>
                  /\ (RatLE(q, RatZero)) => RatEq(m, RatZero)
                  /\ (RatLE(RatOne, q)) => RatEq(m, RatOne)
                  /\ (RatLE(RatZero, q) /\ RatLE(q, RatOne)) => RatEq(m, q)

\* a degenerate range, a value below the range and one above it are all on screen
C1_Witness ==
    /\ indicators[1].max <= indicators[1].min
    /\ mapped[1] = RatHalf
    /\ indicators[2].max > indicators[2].min
    /\ indicators[2].current > indicators[2].max
    /\ RatEq(mapped[2], RatOne)

\* C2: for one and the same range min < max, a larger current never has a
\* smaller normalised magnitude.
C2_NormalizeMonotonic ==
    \A i, j \in DOMAIN indicators :
        (/\ indicators[i].min = indicators[j].min
         /\ indicators[i].max = indicators[j].max
         /\ indicators[i].min < indicators[i].max
         /\ indicators[i].current <= indicators[j].current)
        => RatLE(mapped[i], mapped[j])

\* two indicators over the same proper range with different currents and
\* strictly ordered magnitudes
C2_Witness ==
    /\ indicators[1].min = indicators[2].min
    /\ indicators[1].max = indicators[2].max
    /\ indicators[1].min < indicators[1].max
    /\ indicators[1].current < indicators[2].current
    /\ ~RatLE(mapped[2], mapped[1])

(***************************************************************************)
(* SpecRng: two generator closures made from one seed, called in any order *)
(***************************************************************************)
GenNames == {"a", "b"}

\* a call in which all closures share one seed cell
callShared(g, cells) ==
    LET call == rngCall(cells[g])
    IN  [cells |-> [h \in DOMAIN cells |-> call.cell], value |-> call.value]

\* a call of closure g: only g's own cell advances
callGenerator(g, cells) ==
    LET call == rngCall(cells[g])
    IN  [cells |-> [cells EXCEPT ![g] = call.cell], value |-> call.value]

RngInit ==
    /\ \E s \in Seeds : gens = [g \in GenNames |-> createRNG(s)]
    /\ outs = [g \in GenNames |-> <<>>]
    /\ NormIdle /\ ShuffleIdle /\ MapIdle /\ RegionIdle /\ PolyIdle /\ DynIdle
    /\ GalleryIdle
    /\ NeutralIdle
    /\ ColourIdle
    /\ SeedIdle
    /\ NearIdle
    /\ SampleIdle
    /\ PipeIdle
    /\ WarpIdle

CallGenerator ==
    \E g \in GenNames :
        /\ Len(outs[g]) < MaxCalls
        /\ LET c == callGenerator(g, gens)
           IN  /\ gens' = c.cells
               /\ outs' = [outs EXCEPT ![g] = Append(@, c.value)]
        /\ UNCHANGED <<normVars, shuffleVars, mapVars, regionVars, polyVars, dynVars, warpVars,
                   pipeVars, cmpVars, nearVars, seedVars, colourVars,
                   neutralVars, galleryVars>>

RngNext == CallGenerator

SpecRng == RngInit /\ [][RngNext]_vars

\* C4: two generators made from the same seed return the same k-th output for
\* every k, whatever the order in which they are called, and every output is a
\* value u / 2^32 with 0 <= u < 2^32, that is, a number in [0,1).
C4_SameSeedSameSequence ==
    /\ \A k \in 1..MaxCalls + 1 :
          (k <= Len(outs["a"]) /\ k <= Len(outs["b"])) => outs["a"][k] = outs["b"][k]
    /\ \A g \in GenNames : \A k \in DOMAIN outs[g] : IsNonNegative(outs[g][k])

\* both generators have been called, one of them more often than the other,
\* and the outputs are not all the same number
C4_Witness ==
    /\ Len(outs["a"]) = 2 /\ Len(outs["b"]) = 1
    /\ outs["a"][1] = outs["b"][1]
    /\ outs["a"][1] # outs["a"][2]

(***************************************************************************)
(* SpecShuffle: seededShuffle called, and called again, on one input       *)
(***************************************************************************)
ShuffleInit ==
    /\ shArray \in ShuffleArrays
    /\ shSeed \in Seeds
    /\ shResult = <<>>
    /\ shCalls = 0
    /\ NormIdle /\ RngIdle /\ MapIdle /\ RegionIdle /\ PolyIdle /\ DynIdle
    /\ GalleryIdle
    /\ NeutralIdle
    /\ ColourIdle
    /\ SeedIdle
    /\ NearIdle
    /\ SampleIdle
    /\ PipeIdle
    /\ WarpIdle

CallShuffle ==
    /\ shCalls < MaxCalls
    /\ LET r == seededShuffle(shArray, shSeed)
       IN  /\ shArray' = r.array
           /\ shResult' = r.result
    /\ shCalls' = shCalls + 1
    /\ UNCHANGED <<shSeed, normVars, rngVars, mapVars, regionVars, polyVars, dynVars,
                   warpVars, pipeVars, cmpVars, nearVars, seedVars,
                   colourVars, neutralVars, galleryVars>>

ShuffleNext == CallShuffle

SpecShuffle == ShuffleInit /\ [][ShuffleNext]_vars

\* how often e occurs in list l
Occurrences(l, e) == Cardinality({i \in DOMAIN l : l[i] = e})
IsPermutation(l1, l2) ==
    /\ Len(l1) = Len(l2)
    /\ \A i \in DOMAIN l2 : Occurrences(l1, l2[i]) = Occurrences(l2, l2[i])
    /\ \A i \in DOMAIN l1 : Occurrences(l1, l1[i]) = Occurrences(l2, l1[i])

\* C3: every call of seededShuffle returns a permutation of the list it was
\* given (same length, same multiset), leaves that list as it was, and
\* returns what the previous call with the same list and seed returned.
C3_ShufflePermutation ==
    [][ /\ shArray' = shArray
        /\ IsPermutation(shResult', shArray)
        /\ (shCalls > 0 => shResult' = shResult) ]_vars

\* a list of six has been shuffled twice and came back in another order
C3_Witness ==
    /\ shCalls = 2
    /\ Len(shArray) = 6
    /\ shResult # shArray
    /\ IsPermutation(shResult, shArray)

(***************************************************************************)
(* SpecMap: the App handlers that change photo, config and shuffleKey, and *)
(* the PreviewCanvas memos that React recomputes in the render that        *)
(* follows each of them                                                    *)
(***************************************************************************)
\* the render of PreviewCanvas for photo p and config.indicators cfg
Rendered(p, cfg) ==
    /\ seed' = seedMemo(p)
    /\ LET m == regionMapMemo(p, cfg, seed')
       IN  /\ regionMap' = m.map
           /\ config' = m.indicators

MapInit ==
    /\ photo = <<>>
    /\ config = None
    /\ shuffleKey = 0
    /\ seed = seedMemo(<<>>)
    /\ regionMap = regionMapMemo(<<>>, None, seedMemo(<<>>)).map
    /\ NormIdle /\ RngIdle /\ ShuffleIdle /\ RegionIdle /\ PolyIdle /\ DynIdle
    /\ GalleryIdle
    /\ NeutralIdle
    /\ ColourIdle
    /\ SeedIdle
    /\ NearIdle
    /\ SampleIdle
    /\ PipeIdle
    /\ WarpIdle

\* Upload: onUpload = setPhoto
Upload ==
    \E p \in Photos \ {<<>>} :
        /\ photo' = p
        /\ Rendered(p, config)
        /\ UNCHANGED <<shuffleKey, normVars, rngVars, shuffleVars, regionVars, polyVars, dynVars,
                   warpVars, pipeVars, cmpVars, nearVars, seedVars,
                   colourVars, neutralVars, galleryVars>>

\* Controls.handleApply -> onUpdate -> setConfig (the button needs a photo)
handleApply ==
    \E list \in IndicatorLists :
        /\ photo # <<>>
        /\ Rendered(photo, Some(list))
        /\ UNCHANGED <<photo, shuffleKey, normVars, rngVars, shuffleVars, regionVars, polyVars, dynVars,
                   warpVars, pipeVars, cmpVars, nearVars, seedVars,
                   colourVars, neutralVars, galleryVars>>

\* a Shuffle that seeds the remounted memo with the photo and the new key
handleShuffleReseed ==
    /\ photo # <<>>
    /\ shuffleKey < MaxShuffleKey
    /\ shuffleKey' = shuffleKey + 1
    /\ seed' = seedMemo(photo)
    /\ LET m == regionMapMemo(photo, config, seedMemo(Append(photo, shuffleKey')))
       IN  /\ regionMap' = m.map
           /\ config' = m.indicators
    /\ UNCHANGED <<photo, normVars, rngVars, shuffleVars, regionVars, polyVars, dynVars,
                   warpVars, pipeVars, cmpVars, nearVars, seedVars,
                   colourVars, neutralVars, galleryVars>>

\* App.handleShuffle: a new key remounts PreviewCanvas, whose memos start over
handleShuffle ==
    /\ photo # <<>>
    /\ shuffleKey < MaxShuffleKey
    /\ shuffleKey' = shuffleKey + 1
    /\ Rendered(photo, config)
    /\ UNCHANGED <<photo, normVars, rngVars, shuffleVars, regionVars, polyVars, dynVars,
                   warpVars, pipeVars, cmpVars, nearVars, seedVars,
                   colourVars, neutralVars, galleryVars>>

\* App.handleReset: setPhoto(null), setShuffleKey(0); config stays
handleReset ==
    /\ photo' = <<>>
    /\ shuffleKey' = 0
    /\ Rendered(<<>>, config)
    /\ UNCHANGED <<normVars, rngVars, shuffleVars, regionVars, polyVars, dynVars, warpVars,
                   pipeVars, cmpVars, nearVars, seedVars, colourVars,
                   neutralVars, galleryVars>>

MapNext == Upload \/ handleApply \/ handleShuffle \/ handleReset

SpecMap == MapInit /\ [][MapNext]_vars

\* the rolling polynomial hash h = h * 31 + code, wrapped to 32 bits
RECURSIVE PolyHash(_, _, _)
PolyHash(str, i, h) ==
    IF i > Len(str) THEN h
    ELSE PolyHash(str, i + 1, WAdd(WMul(h, WordOf(31)), WordOf(str[i])))

\* C5: the hash of the photo is the absolute value of the polynomial hash
\* h = h*31 + code taken with signed 32-bit wraparound from 0, and it is a
\* non-negative integer.
C5_HashIsAbsPolynomial ==
    photo # <<>> =>
        /\ seed = MathAbs(Int32Value(PolyHash(photo, 1, WordZero)))
        /\ IsNonNegative(seed)

\* a photo whose polynomial hash left the 31-bit range and wrapped to a
\* negative 32-bit value
C5_Witness ==
    /\ photo # <<>>
    /\ Int32Value(PolyHash(photo, 1, WordZero)).neg
    /\ seed.mag = Int32Value(PolyHash(photo, 1, WordZero)).mag

\* C6: with a photo and a non-empty indicator list of n elements, the region
\* at catalog index i (from 0) holds element i mod n of
\* seededShuffle(indicators, hashString(photo)): the map is a function of the
\* photo and the list alone.
C6_RegionMapDeterministic ==
    (photo # <<>> /\ config # None /\ (config # None => Len(config[1]) > 0)) =>
        LET shuffled == seededShuffle(config[1], hashString(photo)).result
            n == Len(shuffled)
        IN  \A i \in 0..(Len(FACE_REGIONS) - 1) :
                regionMap[FACE_REGIONS[i + 1].id] = Some(shuffled[(i % n) + 1])

\* a second photo, after a Shuffle click, with the six indicators mapped in
\* an order that is not the order of the list
C6_Witness ==
    /\ photo # <<>> /\ config # None /\ shuffleKey > 0
    /\ Len(config[1]) = 6
    /\ regionMap["Forehead"] # Some(config[1][1])
    /\ regionMap["Hair"] = regionMap["Eyes"]

(***************************************************************************)
(* SpecRegion: the per-pixel loops of PreviewCanvas.  A loop runs to its    *)
(* end without interleaving (it is synchronous), so a frame starts only     *)
(* when no loop is running.                                                 *)
(***************************************************************************)
\* config.indicators?.length || 0
indicatorCount(cfg) == IF cfg = None THEN 0 ELSE Len(cfg[1])

\* the frame set up for photo p and config.indicators cfg; dyn is the
\* dynamicRegions argument the loop passes to getRegionAt
StartFrame(mode, p, cfg, dyn) ==
    /\ pixel.done
    /\ frame' = [mode |-> mode, indicators |-> cfg,
                 regionMap |-> regionMapMemo(p, cfg, seedMemo(p)).map,
                 dynamicRegions |-> dyn]
    /\ pixel' = [x |-> 0, y |-> 0, done |-> FALSE]
    /\ regionId' = None
    /\ UNCHANGED <<normVars, rngVars, shuffleVars, mapVars, polyVars, dynVars, warpVars,
                   pipeVars, cmpVars, nearVars, seedVars, colourVars,
                   neutralVars, galleryVars>>

\* the render effect of the first PreviewCanvas: getRegionAt(nx, ny, count)
render ==
    \E p \in RenderPhotos, cfg \in {None} \cup {Some(l) : l \in RenderLists} :
        StartFrame("render", p, cfg, None)

\* applyTransformations: returns early without photo or config.indicators
applyTransformations ==
    \E p \in RenderPhotos, l \in RenderLists :
        LET map == regionMapMemo(p, Some(l), seedMemo(p)).map
        IN  StartFrame("applyTransformations", p, Some(l),
                       Some(getDynamicRegions(l, map)))

\* exportPNG: getDynamicRegions(config.indicators || [], regionMap)
exportPNG ==
    \E p \in RenderPhotos, cfg \in {None} \cup {Some(l) : l \in RenderLists} :
        LET map == regionMapMemo(p, cfg, seedMemo(p)).map
            inds == IF cfg = None THEN <<>> ELSE cfg[1]
        IN  StartFrame("exportPNG", p, cfg, Some(getDynamicRegions(inds, map)))

\* one iteration of for (y ...) for (x ...): nx = x / width, ny = y / height,
\* regionId = getRegionAt(nx, ny, count[, dynamicRegions])
Pixel ==
    /\ ~pixel.done
    /\ LET nx == RoundDiv(pixel.x * Unit, CanvasSize)
           ny == RoundDiv(pixel.y * Unit, CanvasSize)
           count == indicatorCount(frame.indicators)
       IN  regionId' = Some([point |-> [x |-> nx, y |-> ny],
                             regions |-> candidateRegions(count, frame.dynamicRegions),
                             id |-> getRegionAt(nx, ny, count, frame.dynamicRegions)])
    /\ pixel' = IF pixel.x + 1 < CanvasSize
                THEN [pixel EXCEPT !.x = pixel.x + 1]
                ELSE IF pixel.y + 1 < CanvasSize
                     THEN [pixel EXCEPT !.x = 0, !.y = pixel.y + 1]
                     ELSE [pixel EXCEPT !.done = TRUE]
    /\ UNCHANGED <<frame, normVars, rngVars, shuffleVars, mapVars, polyVars, dynVars,
                   warpVars, pipeVars, cmpVars, nearVars, seedVars,
                   colourVars, neutralVars, galleryVars>>

RegionInit ==
    /\ RegionIdle
    /\ NormIdle /\ RngIdle /\ ShuffleIdle /\ MapIdle /\ PolyIdle /\ DynIdle
    /\ GalleryIdle
    /\ NeutralIdle
    /\ ColourIdle
    /\ SeedIdle
    /\ NearIdle
    /\ SampleIdle
    /\ PipeIdle
    /\ WarpIdle

RegionNext == render \/ applyTransformations \/ exportPNG \/ Pixel

SpecRegion == RegionInit /\ [][RegionNext]_vars

\* the catalog entry of a region id
CatalogRegion(id) ==
    FACE_REGIONS[CHOOSE k \in DOMAIN FACE_REGIONS : FACE_REGIONS[k].id = id]

\* C7: getUnlockedRegions(count) returns exactly the primary-tier regions
\* when count <= 3, exactly the primary and secondary tiers when
\* 4 <= count <= 6, and all nine regions when count >= 7, always in catalog
\* order.
C7_UnlockedTiers ==
    (regionId # None /\ frame.dynamicRegions = None) =>
        LET count == indicatorCount(frame.indicators)
            unlocked == regionId[1].regions
        IN  /\ \A i \in DOMAIN unlocked : unlocked[i] = CatalogRegion(unlocked[i].id)
            /\ count <= 3 =>
                   Ids(unlocked) = <<"Forehead", "Eyes", "Nose", "Mouth", "Background">>
            /\ (4 <= count /\ count <= 6) =>
                   Ids(unlocked) = <<"Forehead", "Eyes", "Nose", "Mouth", "Background",
                                     "Cheeks", "Chin">>
            /\ count >= 7 =>
                   Ids(unlocked) = <<"Forehead", "Eyes", "Nose", "Mouth", "Background",
                                     "Cheeks", "Chin", "Hair", "Neck">>

\* a pixel resolved without dynamic regions for a list of seven indicators,
\* with all nine regions unlocked
C7_Witness ==
    /\ regionId # None /\ frame.dynamicRegions = None
    /\ indicatorCount(frame.indicators) = 7
    /\ Len(regionId[1].regions) = 9

\* C8: for every point and every call of getRegionAt, the returned id is
\* either Background or the id of a region in the candidate set
\* (dynamicRegions if supplied, otherwise getUnlockedRegions(indicatorCount));
\* for indicatorCount in {1,2,3} only primary-tier regions (or Background)
\* can be returned.
C8_OnlyCandidatesOnlyPrimary ==
    regionId # None =>
        LET r == regionId[1]
            count == indicatorCount(frame.indicators)
        IN  /\ \/ r.id = "Background"
               \/ \E i \in DOMAIN r.regions : r.regions[i].id = r.id
            /\ count \in {1, 2, 3} => CatalogRegion(r.id).tier = "primary"

Rotation(poly, k) ==
    [i \in DOMAIN poly |-> poly[((i - 1 + k) % Len(poly)) + 1]]

PolyInit ==
    /\ pipPolygon \in TestPolygons
    /\ pipPoint \in TestPoints
    /\ pipInside = <<>>
    /\ NormIdle /\ RngIdle /\ ShuffleIdle /\ MapIdle /\ RegionIdle /\ DynIdle
    /\ GalleryIdle
    /\ NeutralIdle
    /\ ColourIdle
    /\ SeedIdle
    /\ NearIdle
    /\ SampleIdle
    /\ PipeIdle
    /\ WarpIdle

\* the next call: isPointInPolygon(pipPoint, the polygon rotated once more)
CallRotated ==
    /\ Len(pipInside) < Len(pipPolygon)
    /\ pipInside' = Append(pipInside,
                           isPointInPolygon(pipPoint,
                                            Rotation(pipPolygon, Len(pipInside))))
    /\ UNCHANGED <<pipPolygon, pipPoint, normVars, rngVars, shuffleVars, mapVars,
                   regionVars, dynVars, warpVars, pipeVars, cmpVars,
                   nearVars, seedVars, colourVars, neutralVars,
                   galleryVars>>

PolyNext == CallRotated

SpecPoly == PolyInit /\ [][PolyNext]_vars

\* C10: isPointInPolygon(point, polygon) gives the same result for every
\* cyclic rotation of the polygon's vertex list, for every point and polygon
\* with at least 3 vertices (the closing edge from last vertex to first is
\* included in the crossing count).
C10_RotationInvariant ==
    Len(pipPolygon) >= 3 =>
        \A i, j \in DOMAIN pipInside : pipInside[i] = pipInside[j]

\* a point found inside the six-vertex polygon under every rotation of it
C10_Witness ==
    /\ Len(pipPolygon) = 6
    /\ Len(pipInside) = Len(pipPolygon)
    /\ pipInside[1]

(***************************************************************************)
(* SpecDyn: calls of getDynamicRegions on the catalog objects               *)
(***************************************************************************)
ChinIndex == CHOOSE k \in DOMAIN FACE_REGIONS : FACE_REGIONS[k].id = "Chin"
ForeheadIndex == CHOOSE k \in DOMAIN FACE_REGIONS : FACE_REGIONS[k].id = "Forehead"

\* the Chin branch of one call: whether magnitude > 0.5 held, and the exact
\* increments its forEach added to the x of each vertex
chinBranch(templates, map) ==
    IF map["Chin"] = None THEN [asymmetric |-> FALSE, skew |-> <<>>]
    ELSE LET magnitude == normalizeIndicator(map["Chin"][1])
             polygon == templates[ChinIndex].polygon
         IN  [asymmetric |-> ~RatLE(magnitude, RatHalf),
              skew |-> [i \in DOMAIN polygon |-> chinSkew(magnitude, polygon[i])]]

DynInit ==
    /\ faceRegions = FACE_REGIONS
    /\ dynOut = None
    /\ dynCalls = 0
    /\ NormIdle /\ RngIdle /\ ShuffleIdle /\ MapIdle /\ RegionIdle /\ PolyIdle
    /\ GalleryIdle
    /\ NeutralIdle
    /\ ColourIdle
    /\ SeedIdle
    /\ NearIdle
    /\ SampleIdle
    /\ PipeIdle
    /\ WarpIdle

\* const dynamicRegions = getDynamicRegions(config.indicators, regionMap)
callGetDynamicRegions ==
    \E p \in DynPhotos, l \in DynLists :
        LET map == regionMapMemo(p, Some(l), seedMemo(p)).map
            call == getDynamicRegionsCall(faceRegions, map)
        IN  /\ dynCalls < MaxDynCalls
            /\ faceRegions' = call.templates
            /\ dynOut' = Some([regionMap |-> map, regions |-> call.result,
                               chin |-> chinBranch(faceRegions, map)])
            /\ dynCalls' = dynCalls + 1
            /\ UNCHANGED <<normVars, rngVars, shuffleVars, mapVars, regionVars,
                           polyVars, warpVars, pipeVars, cmpVars,
                   nearVars, seedVars, colourVars, neutralVars,
                   galleryVars>>

DynNext == callGetDynamicRegions

SpecDyn == DynInit /\ [][DynNext]_vars

\* C11: for every indicator list and region map, getDynamicRegions returns
\* nine regions in catalog order, each with the same id, priority, tier and
\* vertex count as the template at the same index, and after any sequence of
\* calls the FACE_REGIONS template polygons are unchanged.
C11_DynamicRegionsFrame ==
    /\ faceRegions = FACE_REGIONS
    /\ dynOut # None =>
           /\ Len(dynOut[1].regions) = 9
           /\ \A k \in DOMAIN FACE_REGIONS :
                  /\ dynOut[1].regions[k].id = FACE_REGIONS[k].id
                  /\ dynOut[1].regions[k].priority = FACE_REGIONS[k].priority
                  /\ dynOut[1].regions[k].tier = FACE_REGIONS[k].tier
                  /\ Len(dynOut[1].regions[k].polygon) = Len(FACE_REGIONS[k].polygon)

\* a second call, whose result has a Forehead distorted away from the template
C11_Witness ==
    /\ dynCalls = 2 /\ dynOut # None
    /\ dynOut[1].regions[ForeheadIndex].polygon # FACE_REGIONS[ForeheadIndex].polygon

\* |a| for an integer
Abs(a) == IF a < 0 THEN 0 - a ELSE a

\* C12: when Forehead is assigned an indicator of magnitude m, every Forehead
\* vertex keeps its x and gets y' = topY + (y - topY)*scaleY - shiftY with
\* scaleY = 1 + (m-0.5)*0.6, shiftY = (m-0.5)*0.15 and topY the minimum
\* template y (to within two units of 1/Unit, the rounding of the arithmetic);
\* an indicator with current=10, min=-5, max=10 gives m = 1, scaleY = 1.3 and
\* shiftY = 0.075, that is the vertices y = 0.025 and y = 0.22.
C12_ForeheadStretch ==
    (dynOut # None /\ (dynOut # None => dynOut[1].regionMap["Forehead"] # None)) =>
        LET indicator == dynOut[1].regionMap["Forehead"][1]
            m == normalizeIndicator(indicator)
            template == FACE_REGIONS[ForeheadIndex].polygon
            moved == dynOut[1].regions[ForeheadIndex].polygon
            topY == Fx(10)
            \* 40 * m.d times the exact y' of a vertex at height y
            Exact(y) == 40 * m.d * topY + 4 * (y - topY) * (7 * m.d + 6 * m.n)
                            - 3 * Unit * (2 * m.n - m.d)
        IN  /\ \A i \in DOMAIN template :
                   /\ moved[i].x = template[i].x
                   /\ Abs(40 * m.d * moved[i].y - Exact(template[i].y)) <= 2 * 40 * m.d
            /\ (indicator.current = 100 /\ indicator.min = 0 - 50 /\ indicator.max = 100) =>
                   /\ RatEq(m, RatOne)
                   /\ moved = <<[x |-> 3000, y |-> 250], [x |-> 7000, y |-> 250],
                                [x |-> 8000, y |-> 2200], [x |-> 2000, y |-> 2200]>>

\* Forehead assigned gdp with current=10, min=-5, max=10
C12_Witness ==
    /\ dynOut # None
    /\ dynOut[1].regionMap["Forehead"] = Some(Ind("gdp", 100, 0 - 50, 100, "growth"))
    /\ dynOut[1].regions[ForeheadIndex].polygon[3].y = 2200

\* the magnitude of the indicator a call had mapped to Chin
ChinMagnitude(out) == normalizeIndicator(out.regionMap["Chin"][1])
\* a step from a call with Chin at magnitude exactly 0.5 to the next call
ChinStepFromHalf ==
    /\ dynOut # None /\ dynOut' # None /\ dynCalls' = dynCalls + 1
    /\ dynOut[1].regionMap["Chin"] # None /\ dynOut'[1].regionMap["Chin"] # None
    /\ RatEq(ChinMagnitude(dynOut[1]), RatHalf)
\* at 0.5 the polygon is the template's, so a skew is the distance a vertex
\* moved from where it was at 0.5.  The symmetric skew moves a Chin vertex by
\* at most 0.15 * 0.2 = 0.03 per unit of magnitude: in units of 1/Unit and
\* over the denominator 20 * d of a skew, 3000 * |2n - d| for a magnitude n/d.
SkewWithinSymmetricRate(out) ==
    \A i \in DOMAIN out.chin.skew :
        /\ out.chin.skew[i].d = 20 * ChinMagnitude(out).d
        /\ Abs(out.chin.skew[i].n)
               <= 3000 * Abs(2 * ChinMagnitude(out).n - ChinMagnitude(out).d)

\* C13 as stated: for the Chin region, magnitude exactly 0.5 takes the
\* symmetric skew path, and the distorted Chin polygon as a function of m is
\* continuous when approaching 0.5 from below (m = 0.499) but discontinuous
\* when approaching from above (m = 0.501): from above, the polygon is
\* farther from the polygon at 0.5 than the rate of the symmetric skew allows.
C13_ChinDiscontinuousFromAbove ==
    [][ChinStepFromHalf =>
           /\ ~dynOut[1].chin.asymmetric
           /\ RatLE(ChinMagnitude(dynOut'[1]), RatHalf) =>
                  SkewWithinSymmetricRate(dynOut'[1])
           /\ ~RatLE(ChinMagnitude(dynOut'[1]), RatHalf) =>
                  ~SkewWithinSymmetricRate(dynOut'[1])]_vars

\* C13, amended: magnitude exactly 0.5 takes the symmetric skew path, and the
\* distorted Chin polygon is continuous at 0.5 from below and from above: the
\* only vertex that moves, the apex (0.5, 0.9), is displaced in x by
\* 0.03 * (m - 0.5) for m <= 0.5 and by 0.015 * (m - 0.5) for m > 0.5.  Both
\* tend to 0 at 0.5; what changes there is the slope.
C13_ChinContinuousWithKink ==
    [][ChinStepFromHalf =>
           LET next == dynOut'[1]
               m == ChinMagnitude(next)
           IN  /\ ~dynOut[1].chin.asymmetric
               /\ dynOut[1].regions[ChinIndex].polygon = FACE_REGIONS[ChinIndex].polygon
               /\ SkewWithinSymmetricRate(next)
               /\ next.chin.skew[1].n = 0 /\ next.chin.skew[2].n = 0
               /\ next.chin.skew[3].n =
                      (IF RatLE(m, RatHalf) THEN 3000 ELSE 1500) * (2 * m.n - m.d)]_vars

\* a second call with Chin at magnitude 0.501, on the asymmetric path, its
\* apex displaced by 0.000015
C13_Witness ==
    /\ dynCalls = 2 /\ dynOut # None
    /\ dynOut[1].regionMap["Chin"] = Some(Ind("inflation_vol", 501, 0, 1000, "stability"))
    /\ dynOut[1].chin.asymmetric
    /\ dynOut[1].chin.skew[3] = Rat(3000, 20000)

(***************************************************************************)
(* utils/image-processor.ts: warpCaricature.  Pixel coordinates p.x * width *)
(* are taken to the nearest whole pixel; on whole pixels the arithmetic of  *)
(* the affine solve is exact: a coefficient is kept as its numerator over   *)
(* the common denominator det (idet = 1 / det).                             *)
(***************************************************************************)
\* p.x * width, p.y * height for the first three vertices of a polygon
TriplePx(polygon, width, height) ==
    [k \in 1..3 |-> [x |-> RoundDiv(polygon[k].x * width, Unit),
                     y |-> RoundDiv(polygon[k].y * height, Unit)]]

\* a solve that hands b and c over in each other's place
affineSolveSwapped(S, T, det) ==
    LET m00 == S[2].y - S[3].y
        m01 == S[3].y - S[1].y
        m02 == S[1].y - S[2].y
        m10 == S[3].x - S[2].x
        m11 == S[1].x - S[3].x
        m12 == S[2].x - S[1].x
        m20 == S[2].x * S[3].y - S[3].x * S[2].y
        m21 == S[3].x * S[1].y - S[1].x * S[3].y
        m22 == S[1].x * S[2].y - S[2].x * S[1].y
    IN  [det |-> det,
         a |-> m00 * T[1].x + m01 * T[2].x + m02 * T[3].x,
         b |-> m10 * T[1].x + m11 * T[2].x + m12 * T[3].x,
         c |-> m00 * T[1].y + m01 * T[2].y + m02 * T[3].y,
         d |-> m10 * T[1].y + m11 * T[2].y + m12 * T[3].y,
         e |-> m20 * T[1].x + m21 * T[2].x + m22 * T[3].x,
         f |-> m20 * T[1].y + m21 * T[2].y + m22 * T[3].y]

\* the coefficients a_ .. f_ for source triple S and target triple T, each
\* times det: m00 .. m22 are the entries of the inverse times det
affineSolve(S, T, det) ==
    LET m00 == S[2].y - S[3].y
        m01 == S[3].y - S[1].y
        m02 == S[1].y - S[2].y
        m10 == S[3].x - S[2].x
        m11 == S[1].x - S[3].x
        m12 == S[2].x - S[1].x
        m20 == S[2].x * S[3].y - S[3].x * S[2].y
        m21 == S[3].x * S[1].y - S[1].x * S[3].y
        m22 == S[1].x * S[2].y - S[2].x * S[1].y
    IN  [det |-> det,
         a |-> m00 * T[1].x + m01 * T[2].x + m02 * T[3].x,
         c |-> m10 * T[1].x + m11 * T[2].x + m12 * T[3].x,
         e |-> m20 * T[1].x + m21 * T[2].x + m22 * T[3].x,
         b |-> m00 * T[1].y + m01 * T[2].y + m02 * T[3].y,
         d |-> m10 * T[1].y + m11 * T[2].y + m12 * T[3].y,
         f |-> m20 * T[1].y + m21 * T[2].y + m22 * T[3].y]

NoTransform == [det |-> 0, a |-> 0, b |-> 0, c |-> 0, d |-> 0, e |-> 0, f |-> 0]

\* one iteration of sourceRegions.forEach: what it did to the canvas.
\* op "return" is an iteration that left before ctx.save(); op "draw" is
\* save, clip to the target polygon, setTransform, drawImage, restore
warpRegion(sRegion, tRegion, width, height) ==
    LET S == TriplePx(sRegion.polygon, width, height)
        T == TriplePx(tRegion.polygon, width, height)
        denom == S[1].x * (S[2].y - S[3].y) - S[2].x * (S[1].y - S[3].y)
                     + S[3].x * (S[1].y - S[2].y)
        det == S[1].x * (S[2].y - S[3].y) - S[1].y * (S[2].x - S[3].x)
                   + (S[2].x * S[3].y - S[3].x * S[2].y)
        skipped == [id |-> sRegion.id, op |-> "return", from |-> S, to |-> T,
                    transform |-> NoTransform]
    IN  IF sRegion.id = "Background" THEN skipped
        ELSE IF (IF denom < 0 THEN 0 - denom ELSE denom) * 10000 < 1 THEN skipped
        ELSE IF (IF det < 0 THEN 0 - det ELSE det) * 1000 < 1 THEN skipped
        ELSE [id |-> sRegion.id, op |-> "draw", from |-> S, to |-> T,
              transform |-> affineSolve(S, T, det)]

\* sourceRegions.forEach((sRegion, i) => ...) with tRegion = targetRegions[i]
warpLoop(source, target, width, height) ==
    [i \in DOMAIN source |-> warpRegion(source[i], target[i], width, height)]

(***************************************************************************)
(* SpecWarp: calls of warpCaricature                                        *)
(***************************************************************************)
\* img.width x img.height of the line art
ImageSizes == {[width |-> 20, height |-> 20], [width |-> 40, height |-> 20],
               [width |-> 40, height |-> 40]}
\* a region whose first three vertices lie on one line
FlatRegion ==
    Region("Nose", "primary", 3, <<Pt(20, 20), Pt(40, 40), Pt(60, 60), Pt(20, 60)>>)
NoseIndex == CHOOSE k \in DOMAIN FACE_REGIONS : FACE_REGIONS[k].id = "Nose"
\* the (sourceRegions, targetRegions) handed over: those of
\* applyTransformations, and, warpCaricature being exported, lists of one
\* region with a flat source or a flat target
WarpCalls ==
    {[source |-> FACE_REGIONS,
      target |-> getDynamicRegions(l, regionMapMemo(p, Some(l), seedMemo(p)).map)] :
        p \in RenderPhotos, l \in DynLists}
    \cup {[source |-> <<FlatRegion>>, target |-> <<FACE_REGIONS[NoseIndex]>>],
          [source |-> <<FACE_REGIONS[NoseIndex]>>, target |-> <<FlatRegion>>]}

WarpInit ==
    /\ warp = IdleWarp
    /\ ctxLog = <<>>
    /\ NormIdle /\ RngIdle /\ ShuffleIdle /\ MapIdle /\ RegionIdle /\ PolyIdle
    /\ GalleryIdle
    /\ NeutralIdle
    /\ ColourIdle
    /\ SeedIdle
    /\ NearIdle
    /\ SampleIdle
    /\ PipeIdle
    /\ DynIdle

\* warpCaricature(imageDataUrl, sourceRegions, targetRegions) up to img.src:
\* without OpenCV the promise resolves with the image as it came
warpCaricature ==
    \E call \in WarpCalls, size \in ImageSizes, cvLoaded \in BOOLEAN :
        /\ warp.status \in {"idle", "resolved", "rejected"}
        /\ warp' = [status |-> IF cvLoaded THEN "loading" ELSE "resolved",
                    result |-> IF cvLoaded THEN "" ELSE "imageDataUrl",
                    source |-> call.source, target |-> call.target,
                    width |-> size.width, height |-> size.height]
        /\ ctxLog' = <<>>
        /\ UNCHANGED <<normVars, rngVars, shuffleVars, mapVars, regionVars,
                       polyVars, dynVars, pipeVars, cmpVars, nearVars,
                   seedVars, colourVars, neutralVars, galleryVars>>

\* img.onload: the whole warp, or the image as it came without a 2D context
warpOnload ==
    \E ctx \in BOOLEAN :
        /\ warp.status = "loading"
        /\ warp' = [warp EXCEPT !.status = "resolved",
                                !.result = IF ctx THEN "dataUrl" ELSE "imageDataUrl"]
        /\ ctxLog' = IF ctx
                     THEN warpLoop(warp.source, warp.target, warp.width, warp.height)
                     ELSE <<>>
        /\ UNCHANGED <<normVars, rngVars, shuffleVars, mapVars, regionVars,
                       polyVars, dynVars, pipeVars, cmpVars, nearVars,
                   seedVars, colourVars, neutralVars, galleryVars>>

\* img.onerror: reject('Warp failed')
warpOnerror ==
    /\ warp.status = "loading"
    /\ warp' = [warp EXCEPT !.status = "rejected", !.result = "Warp failed"]
    /\ UNCHANGED <<ctxLog, normVars, rngVars, shuffleVars, mapVars, regionVars,
                   polyVars, dynVars, pipeVars, cmpVars, nearVars,
                   seedVars, colourVars, neutralVars, galleryVars>>

WarpNext == warpCaricature \/ warpOnload \/ warpOnerror

SpecWarp == WarpInit /\ [][WarpNext]_vars

\* three points on one line
Collinear(P) ==
    (P[2].x - P[1].x) * (P[3].y - P[1].y) = (P[3].x - P[1].x) * (P[2].y - P[1].y)

\* C14: for non-Background regions, whenever the first three source vertices
\* are non-collinear, the affine coefficients (a,b,c,d,e,f) computed by
\* warpCaricature map each of the three source pixel points to its
\* corresponding target pixel point: a*xs + c*ys + e = xt and
\* b*xs + d*ys + f = yt.
C14_AffineMapsTriple ==
    \A i \in DOMAIN ctxLog :
        ctxLog[i].op = "draw" =>
            LET t == ctxLog[i].transform
            IN  /\ ctxLog[i].id # "Background"
                /\ ~Collinear(ctxLog[i].from)
                /\ \A k \in 1..3 :
                       /\ t.a * ctxLog[i].from[k].x + t.c * ctxLog[i].from[k].y + t.e
                              = ctxLog[i].to[k].x * t.det
                       /\ t.b * ctxLog[i].from[k].x + t.d * ctxLog[i].from[k].y + t.f
                              = ctxLog[i].to[k].y * t.det

\* a warp that drew the Eyes with a transform that rotates (b is not 0)
C14_Witness ==
    /\ warp.status = "resolved" /\ warp.result = "dataUrl"
    /\ \E i \in DOMAIN ctxLog :
           /\ ctxLog[i].id = "Eyes" /\ ctxLog[i].op = "draw"
           /\ ctxLog[i].transform.b # 0

\* C15: in warpCaricature, whenever the first three source vertices or the
\* first three target vertices of a region are collinear (near-zero
\* determinant), that region's warp is skipped entirely: no clip, transform
\* or draw is performed for it and the canvas keeps its current content.
C15_DegenerateSkipped ==
    \A i \in DOMAIN ctxLog :
        (Collinear(ctxLog[i].from) \/ Collinear(ctxLog[i].to)) =>
            ctxLog[i].op = "return"

(***************************************************************************)
(* SpecPipeline: the asynchronous render and export of PreviewCanvas.  An   *)
(* invocation k stands for the closure of one call: its config, its         *)
(* dynamicRegions and its warped line art.  Every await, image load and     *)
(* timer is a point where other invocations run.                            *)
(***************************************************************************)
Renders == 1..MaxRenders
Log(msg, k) == [msg |-> msg, k |-> k]
\* the state other specifications own
PipeFrame ==
    UNCHANGED <<normVars, rngVars, shuffleVars, mapVars, regionVars, polyVars,
                dynVars, warpVars, cmpVars, nearVars, seedVars,
                   colourVars, neutralVars, galleryVars>>

\* catch (e) { console.error("Pipeline failed", e); setIsProcessing(false); }
pipelineFailed(k) ==
    /\ console' = Append(console, Log("Pipeline failed", k))
    /\ isProcessing' = FALSE
    /\ renders' = [renders EXCEPT ![k] = "done"]
    /\ UNCHANGED <<generation, isExporting, lineArt, canvas, exportTask, cmpVars, nearVars,
                   seedVars, colourVars, neutralVars, galleryVars>>

\* the effect on [photo, config] calls applyTransformations: up to the first
\* await.  Invocations are numbered in the order they start.
applyTransformationsStart(k) ==
    /\ generation = 2
    /\ renders[k] = "unstarted"
    /\ \A j \in Renders : j < k => renders[j] # "unstarted"
    /\ console' = Append(console, Log("Apply pressed", k))
    /\ isProcessing' = TRUE
    /\ renders' = [renders EXCEPT ![k] = "timeout"]
    /\ UNCHANGED <<generation, isExporting, lineArt, canvas, exportTask, cmpVars, nearVars,
                   seedVars, colourVars, neutralVars, galleryVars>>
    /\ PipeFrame

\* the 50 ms timer fires: extractLineArt(photo) is called
timeoutFired(k) ==
    /\ renders[k] = "timeout"
    /\ renders' = [renders EXCEPT ![k] = "extract"]
    /\ UNCHANGED <<generation, isProcessing, isExporting, lineArt, canvas,
                   exportTask, console, cmpVars, nearVars, seedVars,
                   colourVars, neutralVars, galleryVars>>
    /\ PipeFrame

\* extractLineArt settles: resolved, getDynamicRegions and the call of
\* warpCaricature follow; rejected, the catch block runs
extractSettled(k) ==
    /\ generation = 2
    /\ renders[k] = "extract"
    /\ \E resolved \in BOOLEAN :
           IF resolved
           THEN /\ renders' = [renders EXCEPT ![k] = "warp"]
                /\ UNCHANGED <<generation, isProcessing, isExporting, lineArt,
                               canvas, exportTask, console, cmpVars,
                   nearVars, seedVars, colourVars, neutralVars,
                   galleryVars>>
           ELSE pipelineFailed(k)
    /\ PipeFrame

\* a continuation that paints without storing the warped line art
warpSettledNoStore(k) ==
    /\ renders[k] = "warp"
    /\ \E outcome \in {"rejected", "noContext", "painted"} :
           IF outcome = "rejected" THEN pipelineFailed(k)
           ELSE /\ lineArt' = lineArt
                /\ IF outcome = "noContext"
                   THEN /\ console' = Append(console, Log("Warping complete", k))
                        /\ renders' = [renders EXCEPT ![k] = "done"]
                        /\ UNCHANGED canvas
                   ELSE /\ console' = console \o <<Log("Warping complete", k),
                                                    Log("Color clipping applied", k)>>
                        /\ canvas' = [color |-> k, overlays |-> <<>>]
                        /\ renders' = [renders EXCEPT ![k] = "edgeImg"]
                /\ UNCHANGED <<generation, isProcessing, isExporting, exportTask, cmpVars, nearVars,
                   seedVars, colourVars, neutralVars, galleryVars>>
    /\ PipeFrame

\* warpCaricature settles: rejected, the catch block runs; resolved,
\* setLineArt(warped) and render(): without a 2D context render returns, else
\* putImageData overwrites the whole canvas and the overlay image starts loading
warpSettled(k) ==
    /\ renders[k] = "warp"
    /\ \E outcome \in {"rejected", "noContext", "painted"} :
           IF outcome = "rejected" THEN pipelineFailed(k)
           ELSE /\ lineArt' = k
                /\ IF outcome = "noContext"
                   THEN /\ console' = Append(console, Log("Warping complete", k))
                        /\ renders' = [renders EXCEPT ![k] = "done"]
                        /\ UNCHANGED canvas
                   ELSE /\ console' = console \o <<Log("Warping complete", k),
                                                    Log("Color clipping applied", k)>>
                        /\ canvas' = [color |-> k, overlays |-> <<>>]
                        /\ renders' = [renders EXCEPT ![k] = "edgeImg"]
                /\ UNCHANGED <<generation, isProcessing, isExporting, exportTask, cmpVars, nearVars,
                   seedVars, colourVars, neutralVars, galleryVars>>
    /\ PipeFrame

\* edgeImg.onload: the overlay is multiplied onto whatever the canvas holds
edgeImgOnload(k) ==
    /\ renders[k] = "edgeImg"
    /\ canvas' = [canvas EXCEPT !.overlays = Append(canvas.overlays, k)]
    /\ console' = Append(console, Log("Final composite ready", k))
    /\ isProcessing' = FALSE
    /\ renders' = [renders EXCEPT ![k] = "done"]
    /\ UNCHANGED <<generation, isExporting, lineArt, exportTask, cmpVars, nearVars,
                   seedVars, colourVars, neutralVars, galleryVars>>
    /\ PipeFrame

\* the warped image fails to load: edgeImg has no onerror handler
edgeImgError(k) ==
    /\ renders[k] = "edgeImg"
    /\ renders' = [renders EXCEPT ![k] = "done"]
    /\ UNCHANGED <<generation, isProcessing, isExporting, lineArt, canvas,
                   exportTask, console, cmpVars, nearVars, seedVars,
                   colourVars, neutralVars, galleryVars>>
    /\ PipeFrame

\* the first PreviewCanvas, effect on [photo]: setIsProcessing(true);
\* extractLineArt(photo).then(...)
legacyExtractStart(k) ==
    /\ generation = 1
    /\ renders[k] = "unstarted"
    /\ \A j \in Renders : j < k => renders[j] # "unstarted"
    /\ isProcessing' = TRUE
    /\ renders' = [renders EXCEPT ![k] = "extract"]
    /\ UNCHANGED <<generation, isExporting, lineArt, canvas, exportTask, console, cmpVars,
                   nearVars, seedVars, colourVars, neutralVars,
                   galleryVars>>
    /\ PipeFrame

\* its promise settles: then() has no rejection handler
legacyExtractSettled(k) ==
    /\ generation = 1
    /\ renders[k] = "extract"
    /\ \E resolved \in BOOLEAN :
           /\ lineArt' = IF resolved THEN k ELSE lineArt
           /\ isProcessing' = IF resolved THEN FALSE ELSE isProcessing
    /\ renders' = [renders EXCEPT ![k] = "done"]
    /\ UNCHANGED <<generation, isExporting, canvas, exportTask, console, cmpVars, nearVars,
                   seedVars, colourVars, neutralVars, galleryVars>>
    /\ PipeFrame

\* config.indicators when Export is clicked: null before the first Apply
ExportConfigs == {None, Some(MOCK_INDICATORS)}
\* whether the pixel loop of exportPNG throws at its first pixel: the region
\* there has no indicator and getIndicatorColor reads indicator.id
exportThrows(cfg) ==
    LET p == <<97>>
        map == regionMapMemo(p, cfg, seedMemo(p)).map
        dyn == getDynamicRegions(IF cfg = None THEN <<>> ELSE cfg[1], map)
    IN  map[getRegionAt(0, 0, indicatorCount(cfg), Some(dyn))] = None

\* exportPNG up to its first await or callback
exportPNGStart ==
    /\ generation = 2
    /\ ~isExporting
    /\ \E cfg \in ExportConfigs, hasContext \in BOOLEAN :
           /\ (\E k \in Renders : renders[k] # "unstarted") => cfg # None
           /\ exportTask' = IF ~hasContext THEN "returned"
                            ELSE IF exportThrows(cfg) THEN "rejected"
                            ELSE IF lineArt # 0 THEN "overlay"
                            ELSE "blob"
    /\ isExporting' = TRUE
    /\ UNCHANGED <<generation, isProcessing, lineArt, canvas, renders, console, cmpVars,
                   nearVars, seedVars, colourVars, neutralVars,
                   galleryVars>>
    /\ PipeFrame

\* the overlay image of the export loads: resolve(null), then toBlob
exportOverlayOnload ==
    /\ exportTask = "overlay"
    /\ exportTask' = "blob"
    /\ UNCHANGED <<generation, isProcessing, isExporting, lineArt, canvas, renders,
                   console, cmpVars, nearVars, seedVars, colourVars,
                   neutralVars, galleryVars>>
    /\ PipeFrame

\* the overlay image fails to load: no onerror, the awaited promise never settles
exportOverlayError ==
    /\ exportTask = "overlay"
    /\ exportTask' = "hung"
    /\ UNCHANGED <<generation, isProcessing, isExporting, lineArt, canvas, renders,
                   console, cmpVars, nearVars, seedVars, colourVars,
                   neutralVars, galleryVars>>
    /\ PipeFrame

\* the toBlob callback: if (!blob) return; else the download and a 100 ms timer
exportBlob ==
    /\ exportTask = "blob"
    /\ \E blob \in BOOLEAN : exportTask' = IF blob THEN "timer" ELSE "returned"
    /\ UNCHANGED <<generation, isProcessing, isExporting, lineArt, canvas, renders,
                   console, cmpVars, nearVars, seedVars, colourVars,
                   neutralVars, galleryVars>>
    /\ PipeFrame

\* setTimeout(() => { URL.revokeObjectURL(url); setIsExporting(false); }, 100)
exportTimer ==
    /\ exportTask = "timer"
    /\ exportTask' = "idle"
    /\ isExporting' = FALSE
    /\ UNCHANGED <<generation, isProcessing, lineArt, canvas, renders, console, cmpVars,
                   nearVars, seedVars, colourVars, neutralVars,
                   galleryVars>>
    /\ PipeFrame

PipeInit ==
    /\ generation \in {1, 2}
    /\ isProcessing = FALSE /\ isExporting = FALSE
    /\ lineArt = 0
    /\ canvas = BlankCanvas
    /\ renders = [k \in Renders |-> "unstarted"]
    /\ exportTask = "idle"
    /\ console = <<>>
    /\ NormIdle /\ RngIdle /\ ShuffleIdle /\ MapIdle /\ RegionIdle /\ PolyIdle
    /\ GalleryIdle
    /\ NeutralIdle
    /\ DynIdle /\ WarpIdle /\ SampleIdle /\ NearIdle /\ SeedIdle /\ ColourIdle

PipeNext ==
    \/ \E k \in Renders :
           \/ applyTransformationsStart(k)
           \/ timeoutFired(k)
           \/ extractSettled(k)
           \/ warpSettled(k)
           \/ edgeImgOnload(k)
           \/ edgeImgError(k)
           \/ legacyExtractStart(k)
           \/ legacyExtractSettled(k)
    \/ exportPNGStart
    \/ exportOverlayOnload
    \/ exportOverlayError
    \/ exportBlob
    \/ exportTimer

SpecPipeline == PipeInit /\ [][PipeNext]_vars

\* no continuation, image load or timer of any render invocation is pending
Quiescent == \A k \in Renders : renders[k] \in {"unstarted", "done"}
\* nothing of the export is pending that could still run
ExportQuiescent == exportTask \in {"idle", "returned", "rejected", "hung"}

\* C16: every render invocation eventually returns to Idle: after
\* applyTransformations (or the legacy line-art extraction) sets the
\* processing flag, the flag is eventually cleared on every path, including
\* when edge extraction, warping, canvas-context acquisition or loading of
\* the warped line-art image fails.  Once nothing of any invocation is left
\* to run, nothing can clear the flag any more, so it must be clear by then.
C16_ProcessingClears == Quiescent => ~isProcessing

\* C17: an export never blocks indefinitely: whenever exportPNG sets the
\* exporting flag, the flag is eventually cleared (and further exports become
\* possible), on every path.  Once nothing of the export is left to run,
\* the flag must be clear.
C17_ExportingClears == ExportQuiescent => ~isExporting

\* the position of the first console entry (msg, k), 0 if there is none
Pos(msg, k) ==
    IF \E n \in DOMAIN console : console[n] = Log(msg, k)
    THEN CHOOSE n \in DOMAIN console :
             /\ console[n] = Log(msg, k)
             /\ \A n2 \in DOMAIN console : console[n2] = Log(msg, k) => n <= n2
    ELSE 0
\* the invocation of the last console entry with this message, 0 if none
LastLogged(msg) ==
    LET at == {n \in DOMAIN console : console[n].msg = msg}
    IN  IF at = {} THEN 0
        ELSE console[CHOOSE n \in at : \A n2 \in at : n2 <= n].k
\* j started while i, started before it, had not completed, and both completed
Overlapped(i, j) ==
    /\ i < j
    /\ Pos("Final composite ready", i) > 0 /\ Pos("Final composite ready", j) > 0
    /\ Pos("Apply pressed", j) < Pos("Final composite ready", i)

\* C18 as stated: when two render invocations overlap, the frame finally
\* shown on the canvas and the stored lineArt are those of the invocation
\* that completes last, not of the one that started last.
C18_LastToCompleteWins ==
    (Quiescent /\ \E i, j \in Renders : Overlapped(i, j)) =>
        /\ canvas.color = LastLogged("Final composite ready")
        /\ canvas.overlays = <<LastLogged("Final composite ready")>>
        /\ lineArt = LastLogged("Final composite ready")

\* C18, amended: when two render invocations overlap, the stored lineArt is
\* that of the invocation whose warp resolved last and the pixel layer on the
\* canvas is that of the invocation that painted last (the last to log
\* "Warping complete" and "Color clipping applied"), whether or not it started
\* last or its overlay loaded last; overlays loaded afterwards lie on top.
C18_LastToPaintWins ==
    generation = 2 =>
        /\ lineArt = LastLogged("Warping complete")
        /\ canvas.color = LastLogged("Color clipping applied")
        /\ \A n \in DOMAIN canvas.overlays :
               Pos("Color clipping applied", canvas.color)
                   < Pos("Final composite ready", canvas.overlays[n])

\* two overlapping invocations, both complete: the second painted first, the
\* first painted last and loaded its overlay first; the canvas and lineArt are
\* the first's although the second started last and completed last
C18_Witness ==
    /\ Quiescent /\ Overlapped(1, 2)
    /\ LastLogged("Final composite ready") = 2
    /\ canvas.color = 1 /\ lineArt = 1

\* C19: renders share no mutable state other than the canvas, and the canvas
\* is fully overwritten by each pass: in every reachable state after all
\* in-flight renders have finished, the colour layer and the line-art overlay
\* on the canvas both come from one and the same render invocation.
C19_OneInvocationPerFrame ==
    Quiescent => \A n \in DOMAIN canvas.overlays : canvas.overlays[n] = canvas.color

(***************************************************************************)
(* SpecExport: the body of the per-pixel loop of applyTransformations and   *)
(* of exportPNG, run at the same normalized position under the same photo   *)
(* and config.  Subdivision is off, so a painted pixel gets                 *)
(* getIndicatorColor(indicator, normalizeIndicator(indicator), palette).    *)
(***************************************************************************)
\* exportDim = 2048 over the 512 of the visible canvas
ExportScale == 4
ExportDim == ExportScale * CanvasSize

\* a loop body that skips only pixels without an indicator
previewPixelBleed(x, y, cfg, map, dyn) ==
    LET nx == RoundDiv(x * Unit, CanvasSize)
        ny == RoundDiv(y * Unit, CanvasSize)
        id == getRegionAt(nx, ny, indicatorCount(cfg), Some(dyn))
        indicator == map[id]
    IN  [nx |-> nx, ny |-> ny, regionId |-> id, indicator |-> indicator,
         op |-> IF indicator = None THEN "continue" ELSE "paint"]

\* the loop body of render() inside applyTransformations at pixel (x, y)
previewPixel(x, y, cfg, map, dyn) ==
    LET nx == RoundDiv(x * Unit, CanvasSize)
        ny == RoundDiv(y * Unit, CanvasSize)
        id == getRegionAt(nx, ny, indicatorCount(cfg), Some(dyn))
        indicator == map[id]
    IN  [nx |-> nx, ny |-> ny, regionId |-> id, indicator |-> indicator,
         op |-> IF indicator = None \/ id = "Background" THEN "continue"
                ELSE "paint"]

\* the loop body of exportPNG at pixel (x, y): no continue; getIndicatorColor
\* throws on an undefined indicator
exportPixel(x, y, cfg, map, dyn) ==
    LET nx == RoundDiv(x * Unit, ExportDim)
        ny == RoundDiv(y * Unit, ExportDim)
        id == getRegionAt(nx, ny, indicatorCount(cfg), Some(dyn))
        indicator == map[id]
    IN  [nx |-> nx, ny |-> ny, regionId |-> id, indicator |-> indicator,
         op |-> IF indicator = None THEN "throw" ELSE "paint"]

\* one iteration of the preview loop, for some photo, config and pixel (one
\* position is followed per behaviour)
previewLoopBody ==
    /\ sample = None
    /\ \E p \in RenderPhotos, l \in RenderLists, x, y \in 0..(CanvasSize - 1) :
           LET map == regionMapMemo(p, Some(l), seedMemo(p)).map
               dyn == getDynamicRegions(l, map)
           IN  sample' = Some([photo |-> p, indicators |-> l, x |-> x, y |-> y,
                               preview |-> previewPixel(x, y, Some(l), map, dyn),
                               export |-> None])
    /\ UNCHANGED <<normVars, rngVars, shuffleVars, mapVars, regionVars, polyVars,
                   dynVars, warpVars, pipeVars, nearVars, seedVars,
                   colourVars, neutralVars, galleryVars>>

\* the iteration of the export loop at the same normalized position
exportLoopBody ==
    /\ sample # None /\ sample[1].export = None
    /\ LET p == sample[1].photo
           l == sample[1].indicators
           map == regionMapMemo(p, Some(l), seedMemo(p)).map
           dyn == getDynamicRegions(l, map)
       IN  sample' = Some([sample[1] EXCEPT !.export =
                               Some(exportPixel(ExportScale * sample[1].x,
                                                ExportScale * sample[1].y,
                                                Some(l), map, dyn))])
    /\ UNCHANGED <<normVars, rngVars, shuffleVars, mapVars, regionVars, polyVars,
                   dynVars, warpVars, pipeVars, nearVars, seedVars,
                   colourVars, neutralVars, galleryVars>>

ExportInit ==
    /\ SampleIdle
    /\ NormIdle /\ RngIdle /\ ShuffleIdle /\ MapIdle /\ RegionIdle /\ PolyIdle
    /\ GalleryIdle
    /\ NeutralIdle
    /\ DynIdle /\ WarpIdle /\ PipeIdle /\ NearIdle /\ SeedIdle /\ ColourIdle

ExportNext == previewLoopBody \/ exportLoopBody

SpecExport == ExportInit /\ [][ExportNext]_vars

\* C20: the export is algorithmically identical to the preview apart from
\* resolution: for the same photo and config, every normalized pixel position
\* is resolved to the same region and the same indicator, and is coloured or
\* skipped by the same policy.
C20_ExportSameAsPreview ==
    (sample # None /\ sample[1].export # None) =>
        LET pre == sample[1].preview
            exp == sample[1].export[1]
        IN  /\ pre.nx = exp.nx /\ pre.ny = exp.ny
            /\ pre.regionId = exp.regionId
            /\ pre.indicator = exp.indicator
            /\ pre.op = exp.op

(***************************************************************************)
(* logic/voronoi.ts: findNearestSeed                                       *)
(***************************************************************************)
\* the for-of loop from seed i on; minDist is None for Infinity.  The mutant
\* takes a seed that is as near as the nearest so far
RECURSIVE nearestLoopLast(_, _, _, _, _)
nearestLoopLast(p, seeds, i, minDist, near) ==
    IF i > Len(seeds) THEN near
    ELSE LET s == seeds[i]
             dx == p.x - s.x
             dy == p.y - s.y
             dist == dx * dx + dy * dy
         IN  IF (IF minDist = None THEN TRUE ELSE dist <= minDist[1])
             THEN nearestLoopLast(p, seeds, i + 1, Some(dist), s)
             ELSE nearestLoopLast(p, seeds, i + 1, minDist, near)

RECURSIVE nearestLoop(_, _, _, _, _)
nearestLoop(p, seeds, i, minDist, near) ==
    IF i > Len(seeds) THEN near
    ELSE LET s == seeds[i]
             dx == p.x - s.x
             dy == p.y - s.y
             dist == dx * dx + dy * dy
         IN  IF (IF minDist = None THEN TRUE ELSE dist < minDist[1])
             THEN nearestLoop(p, seeds, i + 1, Some(dist), s)
             ELSE nearestLoop(p, seeds, i + 1, minDist, near)

\* findNearestSeed(p, seeds): None is null
findNearestSeed(p, seeds) ==
    IF Len(seeds) = 0 THEN None
    ELSE Some(nearestLoop(p, seeds, 1, None, seeds[1]))

\* the largest pixel coordinate and the longest seed list tried
MaxCoord == 2
MaxSeeds == 2
PixelPoints == [x : 0..MaxCoord, y : 0..MaxCoord]
SeedLists == UNION {[1..n -> PixelPoints] : n \in 0..MaxSeeds}

NearInit ==
    /\ NearIdle
    /\ NormIdle /\ RngIdle /\ ShuffleIdle /\ MapIdle /\ RegionIdle /\ PolyIdle
    /\ GalleryIdle
    /\ NeutralIdle
    /\ DynIdle /\ WarpIdle /\ PipeIdle /\ SampleIdle /\ SeedIdle /\ ColourIdle

\* one call is followed per behaviour (the function keeps no state)
callFindNearestSeed ==
    /\ nearest = None
    /\ \E p \in PixelPoints, seeds \in SeedLists :
           nearest' = Some([point |-> p, seeds |-> seeds,
                            result |-> findNearestSeed(p, seeds)])
    /\ UNCHANGED <<normVars, rngVars, shuffleVars, mapVars, regionVars, polyVars,
                   dynVars, warpVars, pipeVars, cmpVars, seedVars,
                   colourVars, neutralVars, galleryVars>>

NearNext == callFindNearestSeed

SpecNear == NearInit /\ [][NearNext]_vars

\* dx * dx + dy * dy
SquaredDistance(p, s) == (p.x - s.x) * (p.x - s.x) + (p.y - s.y) * (p.y - s.y)

\* C21: findNearestSeed returns null if and only if the seed list is empty;
\* otherwise it returns an element of the list whose squared Euclidean
\* distance to the point is minimal, and among equidistant seeds the one that
\* occurs first in the list (for a single-seed list, always that seed).
C21_NearestFirst ==
    nearest # None =>
        LET p == nearest[1].point
            seeds == nearest[1].seeds
            result == nearest[1].result
        IN  /\ (result = None) <=> (seeds = <<>>)
            /\ result # None =>
                   \E i \in DOMAIN seeds :
                       /\ result[1] = seeds[i]
                       /\ \A j \in DOMAIN seeds :
                              SquaredDistance(p, seeds[i]) <= SquaredDistance(p, seeds[j])
                       /\ \A j \in 1..(i - 1) :
                              SquaredDistance(p, seeds[i]) < SquaredDistance(p, seeds[j])
            /\ Len(seeds) = 1 => result = Some(seeds[1])

\* a call with two different seeds at the same distance, the second in the
\* list lying before the first in x: the first in the list is returned
C21_Witness ==
    /\ nearest # None
    /\ Len(nearest[1].seeds) >= 2
    /\ nearest[1].seeds[1] # nearest[1].seeds[2]
    /\ SquaredDistance(nearest[1].point, nearest[1].seeds[1])
           = SquaredDistance(nearest[1].point, nearest[1].seeds[2])
    /\ \A j \in DOMAIN nearest[1].seeds :
           SquaredDistance(nearest[1].point, nearest[1].seeds[1])
               <= SquaredDistance(nearest[1].point, nearest[1].seeds[j])
    /\ nearest[1].result = Some(nearest[1].seeds[1])

(***************************************************************************)
(* logic/voronoi.ts: generateClippedSeeds.  A generator output r is kept    *)
(* to the nearest 1/Unit below it; seeds are in pixels, in units of 1/Unit. *)
(***************************************************************************)
\* rng() as a fixed-point number in [0, 1)
rngFx(value) == FloorTimes(value, Unit)
\* (r - 0.5) * magnitude * 0.1
jitter(r, magnitude) == RoundDiv((r - (Unit \div 2)) * magnitude.n, 10 * magnitude.d)

\* a cap of six attempts per requested point
maxAttemptsSix(count) == count * 6
\* const maxAttempts = count * 5
maxAttempts(count) == count * 5

\* generateClippedSeeds(count, polygon, bounds, seed, magnitude) on entry: the
\* generator's cell, no points, no attempts
generateClippedSeeds(count, polygon, bounds, s, magnitude) ==
    [count |-> count, polygon |-> polygon, bounds |-> bounds, seed |-> s,
     magnitude |-> magnitude, cell |-> createRNG(s), points |-> <<>>, attempts |-> 0,
     returned |-> FALSE]

\* n calls of rng() in a row: the cell afterwards and the values returned
RECURSIVE rngDraws(_, _)
rngDraws(cell, n) ==
    IF n = 0 THEN [cell |-> cell, values |-> <<>>]
    ELSE LET call == rngCall(cell)
             rest == rngDraws(call.cell, n - 1)
         IN  [cell |-> rest.cell, values |-> <<call.value>> \o rest.values]

\* while (points.length < count && attempts < maxAttempts) { ... }: the test
\* and, when it holds, one pass of the body (two calls of rng() for x and y
\* and, inside the polygon, two more for the jitter); otherwise return points
whileStep(run) ==
    IF ~(Len(run.points) < run.count /\ run.attempts < maxAttempts(run.count))
    THEN [run EXCEPT !.returned = TRUE]
    ELSE LET xy == rngDraws(run.cell, 2)
             x == rngFx(xy.values[1])
             y == rngFx(xy.values[2])
         IN  IF isPointInPolygon([x |-> x, y |-> y], run.polygon)
             THEN LET all == rngDraws(run.cell, 4)
                      jitterX == jitter(rngFx(all.values[3]), run.magnitude)
                      jitterY == jitter(rngFx(all.values[4]), run.magnitude)
                  IN  [run EXCEPT
                          !.cell = all.cell,
                          !.points = Append(@, [x |-> (x + jitterX) * run.bounds.width,
                                                y |-> (y + jitterY) * run.bounds.height]),
                          !.attempts = @ + 1]
             ELSE [run EXCEPT !.cell = xy.cell, !.attempts = @ + 1]

\* Math.ceil(magnitude * k) for a magnitude >= 0
MathCeilTimes(magnitude, k) ==
    (magnitude.n * k + magnitude.d - 1) \div magnitude.d
\* an export that asks for as many seeds as the preview
exportSeedCountSparse(magnitude) == MathCeilTimes(magnitude, 10) + 2
\* Math.ceil(magnitude * 10) + 2 and Math.ceil(magnitude * 20) + 5
previewSeedCount(magnitude) == MathCeilTimes(magnitude, 10) + 2
exportSeedCount(magnitude) == MathCeilTimes(magnitude, 20) + 5

(***************************************************************************)
(* SpecSeeds: the seeds of one region, recomputed by the preview and by the *)
(* export under one photo and one config (subdivision on).                  *)
(***************************************************************************)
\* how many calls for the region are followed
MaxSeedCalls == 2
\* the config.indicators tried
SeedConfigs == {MOCK_INDICATORS, SlidersAt(TRUE), SlidersAt(FALSE)}

\* region k of dynamicRegions (dynamicRegions.forEach(region => ...))
seedRegion(p, l, k) ==
    getDynamicRegions(l, regionMapMemo(p, Some(l), seedMemo(p)).map)[k]
\* const indicator = regionMap[region.id];
\* const magnitude = indicator ? normalizeIndicator(indicator) : 0.5
seedMagnitude(p, l, id) ==
    LET indicator == regionMapMemo(p, Some(l), seedMemo(p)).map[id]
    IN  IF indicator # None THEN normalizeIndicator(indicator[1]) ELSE RatHalf
\* regionSeeds[region.id] = generateClippedSeeds(count, region.polygon,
\* { width, height }, seed, magnitude): the call as it starts
seedCall(caller, p, l, k, polygon, magnitude) ==
    LET count == IF caller = "preview" THEN previewSeedCount(magnitude)
                 ELSE exportSeedCount(magnitude)
        dim == IF caller = "preview" THEN CanvasSize ELSE ExportDim
    IN  [caller |-> caller, photo |-> p, indicators |-> l, region |-> k,
         run |-> generateClippedSeeds(count, polygon, [width |-> dim, height |-> dim],
                                      seedMemo(p), magnitude)]

SeedInit ==
    /\ SeedIdle
    /\ NormIdle /\ RngIdle /\ ShuffleIdle /\ MapIdle /\ RegionIdle /\ PolyIdle
    /\ GalleryIdle
    /\ NeutralIdle
    /\ DynIdle /\ WarpIdle /\ PipeIdle /\ SampleIdle /\ NearIdle /\ ColourIdle

\* every call made so far has returned (the calls are synchronous)
SeedsReturned == \A i \in DOMAIN seedCalls : seedCalls[i].run.returned

\* render() of applyTransformations, part D, for one region: the first call
\* fixes the photo, the config and the region that are followed
previewSeeds ==
    /\ SeedsReturned
    /\ Len(seedCalls) < MaxSeedCalls
    /\ \E p \in RenderPhotos, l \in SeedConfigs, k \in DOMAIN FACE_REGIONS :
           /\ IF seedCalls = <<>> THEN TRUE
              ELSE /\ p = seedCalls[1].photo
                   /\ l = seedCalls[1].indicators
                   /\ k = seedCalls[1].region
           /\ \E region \in {seedRegion(p, l, k)} :
              \E magnitude \in {seedMagnitude(p, l, region.id)} :
                  seedCalls' = Append(seedCalls,
                                      seedCall("preview", p, l, k, region.polygon,
                                               magnitude))
    /\ UNCHANGED <<normVars, rngVars, shuffleVars, mapVars, regionVars, polyVars,
                   dynVars, warpVars, pipeVars, cmpVars, nearVars,
                   colourVars, neutralVars, galleryVars>>

\* exportPNG, part 1, for the same region under the same photo and config
exportSeeds ==
    /\ seedCalls # <<>>
    /\ SeedsReturned
    /\ Len(seedCalls) < MaxSeedCalls
    /\ \E p \in {seedCalls[1].photo}, l \in {seedCalls[1].indicators},
          k \in {seedCalls[1].region} :
           \E region \in {seedRegion(p, l, k)} :
               \E magnitude \in {seedMagnitude(p, l, region.id)} :
                   seedCalls' = Append(seedCalls,
                                       seedCall("export", p, l, k, region.polygon,
                                                magnitude))
    /\ UNCHANGED <<normVars, rngVars, shuffleVars, mapVars, regionVars, polyVars,
                   dynVars, warpVars, pipeVars, cmpVars, nearVars,
                   colourVars, neutralVars, galleryVars>>

\* the running call of generateClippedSeeds takes its next step
whileLoop ==
    /\ ~SeedsReturned
    /\ seedCalls' = [seedCalls EXCEPT ![Len(seedCalls)].run = whileStep(@)]
    /\ UNCHANGED <<normVars, rngVars, shuffleVars, mapVars, regionVars, polyVars,
                   dynVars, warpVars, pipeVars, cmpVars, nearVars,
                   colourVars, neutralVars, galleryVars>>

SeedNext == previewSeeds \/ exportSeeds \/ whileLoop

SpecSeeds == SeedInit /\ [][SeedNext]_vars

\* the arguments of a call of generateClippedSeeds
SeedArgs(run) == <<run.count, run.polygon, run.bounds, run.seed, run.magnitude>>

IsCeilOf(k, magnitude, factor) ==
    /\ k * magnitude.d >= factor * magnitude.n
    /\ (k - 1) * magnitude.d < factor * magnitude.n

\* C23: the requested Voronoi seed count is ceil(m*10)+2 in preview and
\* ceil(m*20)+5 in export for magnitude m in [0,1]; export requests 5 seeds
\* at m=0 and 25 at m=1, and for every m in [0,1] the export count is
\* strictly greater than the preview count.
C23_SeedCounts ==
    \A i \in DOMAIN seedCalls :
        LET call == seedCalls[i]
            m == call.run.magnitude
        IN  /\ call.caller = "preview" => IsCeilOf(call.run.count - 2, m, 10)
            /\ call.caller = "export" =>
                   /\ IsCeilOf(call.run.count - 5, m, 20)
                   /\ RatEq(m, RatZero) => call.run.count = 5
                   /\ RatEq(m, RatOne) => call.run.count = 25
                   /\ \A j \in DOMAIN seedCalls :
                          (seedCalls[j].caller = "preview"
                           /\ RatEq(seedCalls[j].run.magnitude, m))
                              => call.run.count > seedCalls[j].run.count

\* the preview and then the export have asked for the seeds of a region whose
\* indicator is at its maximum: 12 and 25 seeds
C23_Witness ==
    /\ Len(seedCalls) = 2
    /\ seedCalls[1].caller = "preview" /\ seedCalls[2].caller = "export"
    /\ RatEq(seedCalls[2].run.magnitude, RatOne)
    /\ seedCalls[1].run.count = 12 /\ seedCalls[2].run.count = 25

\* C26: every seed returned by generateClippedSeeds is clipped to the region
\* polygon: divided back by the bounds, each returned point lies inside the
\* polygon passed in, for every magnitude in [0,1].
C26_SeedsInsidePolygon ==
    \A i \in DOMAIN seedCalls :
        LET run == seedCalls[i].run
        IN  \A n \in DOMAIN run.points :
                isPointInPolygon([x |-> run.points[n].x \div run.bounds.width,
                                  y |-> run.points[n].y \div run.bounds.height],
                                 run.polygon)

(***************************************************************************)
(* utils/indicators.ts: getIndicatorColor.  normalizedValue is a rational;  *)
(* the decimal factors are written over their denominators, so that every   *)
(* Math.floor is taken of the exact value.  A string is the sequence of its *)
(* characters.                                                              *)
(***************************************************************************)
HexDigits == <<"0", "1", "2", "3", "4", "5", "6", "7", "8", "9",
               "a", "b", "c", "d", "e", "f">>
\* n.toString(16) for an integer n >= 0
RECURSIVE toString16(_)
toString16(n) ==
    IF n < 16 THEN <<HexDigits[n + 1]>>
    ELSE toString16(n \div 16) \o <<HexDigits[(n % 16) + 1]>>
\* a channel written without padding
hexChannelBare(n) == toString16(n)
\* n.toString(16).padStart(2, '0')
hexChannel(n) ==
    LET str == toString16(n)
    IN  IF Len(str) < 2 THEN <<"0">> \o str ELSE str

\* Math.floor(a + b * v) and Math.floor(b * (1 - v)) for a rational v
FloorAffine(a, b, v) == a + ((b * v.n) \div v.d)
FloorFalling(b, v) == (b * (v.d - v.n)) \div v.d
\* Math.floor(0.299 * r + 0.587 * g + 0.114 * b)
Luminance(r, g, b) == (299 * r + 587 * g + 114 * b) \div 1000
\* Math.min(255, Math.max(0, c))
ClampChannel(c) == IF c < 0 THEN 0 ELSE IF c > 255 THEN 255 ELSE c

\* step 1: the base colour family
baseColor(indicator, v, palette) ==
    IF indicator.id = "gdp" \/ indicator.category = "growth"
    THEN LET g == FloorAffine(100, 100, v)
         IN  IF palette = "Vibrant"
             THEN [r |-> 0, g |-> (g * 12) \div 10, b |-> 255]
             ELSE [r |-> FloorFalling(50, v), g |-> g, b |-> FloorAffine(200, 55, v)]
    ELSE IF \/ indicator.id = "infl" \/ indicator.id = "inflation_vol"
            \/ indicator.category = "stability"
    THEN LET g == FloorFalling(100, v)
         IN  IF palette = "Vibrant"
             THEN [r |-> 255, g |-> (g * 8) \div 10, b |-> 0]
             ELSE [r |-> FloorAffine(200, 55, v), g |-> g, b |-> FloorFalling(50, v)]
    ELSE IF indicator.id = "gini" \/ indicator.category = "social"
    THEN IF palette = "Vibrant"
         THEN [r |-> 200, g |-> 0, b |-> 255]
         ELSE [r |-> FloorAffine(150, 100, v), g |-> FloorFalling(50, v),
               b |-> FloorAffine(150, 100, v)]
    ELSE LET w == FloorAffine(180, 75, v)
         IN  [r |-> w, g |-> (w * 95) \div 100, b |-> (w * 9) \div 10]

\* step 2: the palette modifier
applyPalette(c, palette) ==
    LET gray == Luminance(c.r, c.g, c.b)
    IN  IF palette = "Monochrome" THEN [r |-> gray, g |-> gray, b |-> gray]
        ELSE IF palette = "Neutral"
        THEN [r |-> (7 * c.r + 3 * gray) \div 10,
              g |-> (7 * c.g + 3 * gray) \div 10,
              b |-> (7 * c.b + 3 * gray) \div 10]
        ELSE c

getIndicatorColor(indicator, normalizedValue, palette) ==
    LET c == applyPalette(baseColor(indicator, normalizedValue, palette), palette)
    IN  <<"#">> \o hexChannel(ClampChannel(c.r)) \o hexChannel(ClampChannel(c.g))
            \o hexChannel(ClampChannel(c.b))

\* parseInt(colorHex.slice(from, to), 16) for a slice of hex digits, as the
\* byte stored in imageData.data (NaN, for an empty slice, is stored as 0);
\* slice takes 0-based positions and stops at the end of the string
HexValue(char) == (CHOOSE k \in DOMAIN HexDigits : HexDigits[k] = char) - 1
RECURSIVE parseInt16(_)
parseInt16(str) ==
    IF str = <<>> THEN 0
    ELSE 16 * parseInt16(SubSeq(str, 1, Len(str) - 1)) + HexValue(str[Len(str)])
slice(str, from, to) == SubSeq(str, from + 1, IF to > Len(str) THEN Len(str) ELSE to)

(***************************************************************************)
(* SpecColour: getIndicatorColor as the pixel loops call it                 *)
(***************************************************************************)
\* magnitudes k / MagSteps, k in 0..MagSteps
MagSteps == 20
Magnitudes == {Rat(k, MagSteps) : k \in 0..MagSteps}
PaletteType == {"Neutral", "Vibrant", "Monochrome"}
\* the default indicators, and one whose id and category select no family
ColourIndicators ==
    {MOCK_INDICATORS[i] : i \in DOMAIN MOCK_INDICATORS}
    \cup {Ind("custom", 1, 0, 2, "other")}

ColourInit ==
    /\ ColourIdle
    /\ NormIdle /\ RngIdle /\ ShuffleIdle /\ MapIdle /\ RegionIdle /\ PolyIdle
    /\ GalleryIdle
    /\ NeutralIdle
    /\ DynIdle /\ WarpIdle /\ PipeIdle /\ SampleIdle /\ NearIdle /\ SeedIdle

\* let colorHex = getIndicatorColor(indicator, magnitude, config.palette) and
\* the three parseInt calls on its slices
paintPixel ==
    /\ \E indicator \in ColourIndicators, v \in Magnitudes, palette \in PaletteType :
           \E colorHex \in {getIndicatorColor(indicator, v, palette)} :
               colour' = Some([indicator |-> indicator, normalizedValue |-> v,
                               palette |-> palette, colorHex |-> colorHex,
                               r |-> parseInt16(slice(colorHex, 1, 3)),
                               g |-> parseInt16(slice(colorHex, 3, 5)),
                               b |-> parseInt16(slice(colorHex, 5, 7))])
    /\ UNCHANGED <<normVars, rngVars, shuffleVars, mapVars, regionVars, polyVars,
                   dynVars, warpVars, pipeVars, cmpVars, nearVars, seedVars,
                   neutralVars, galleryVars>>

ColourNext == paintPixel

SpecColour == ColourInit /\ [][ColourNext]_vars

\* C24: for every indicator, every palette and every magnitude in [0,1],
\* getIndicatorColor returns a 7-character '#rrggbb' string whose three
\* channels are integers in [0,255]; with the Monochrome palette the three
\* channels are equal.
C24_ColourWellFormed ==
    colour # None =>
        LET str == colour[1].colorHex
        IN  /\ Len(str) = 7
            /\ str[1] = "#"
            /\ \A k \in 2..7 : \E d \in DOMAIN HexDigits : str[k] = HexDigits[d]
            /\ colour[1].r \in 0..255 /\ colour[1].g \in 0..255 /\ colour[1].b \in 0..255
            /\ colour[1].palette = "Monochrome" =>
                   /\ colour[1].r = colour[1].g /\ colour[1].g = colour[1].b
                   /\ SubSeq(str, 2, 3) = SubSeq(str, 4, 5)
                   /\ SubSeq(str, 4, 5) = SubSeq(str, 6, 7)

\* a Monochrome colour that is neither black nor white, and a colour with a
\* channel below 16 (written with a leading zero) are both covered: here the
\* first, for an indicator at its maximum
C24_Witness ==
    /\ colour # None
    /\ colour[1].palette = "Monochrome"
    /\ RatEq(colour[1].normalizedValue, RatOne)
    /\ colour[1].r \in 1..254

(***************************************************************************)
(* SpecPreview: what one pass of the pixel loop of applyTransformations     *)
(* leaves in imageData.data for its pixel (subdivision off).                *)
(***************************************************************************)
\* the four bytes of a pixel of ctx.createImageData(width, height)
TransparentBlack == <<0, 0, 0, 0>>

\* the bytes at idx .. idx + 3 after the loop body has run for pixel (x, y)
previewWrite(px, palette) ==
    IF px.op = "continue" THEN TransparentBlack
    ELSE LET magnitude == normalizeIndicator(px.indicator[1])
             colorHex == getIndicatorColor(px.indicator[1], magnitude, palette)
         IN  <<parseInt16(slice(colorHex, 1, 3)), parseInt16(slice(colorHex, 3, 5)),
               parseInt16(slice(colorHex, 5, 7)), 255>>

PreviewInit ==
    /\ SampleIdle
    /\ NormIdle /\ RngIdle /\ ShuffleIdle /\ MapIdle /\ RegionIdle /\ PolyIdle
    /\ GalleryIdle
    /\ NeutralIdle
    /\ DynIdle /\ WarpIdle /\ PipeIdle /\ NearIdle /\ SeedIdle /\ ColourIdle

\* one iteration of the loop, for some photo, config and pixel (one position
\* is followed per behaviour)
renderPixel ==
    /\ sample = None
    /\ \E p \in RenderPhotos, l \in RenderLists, palette \in PaletteType,
          x, y \in 0..(CanvasSize - 1) :
           \E map \in {regionMapMemo(p, Some(l), seedMemo(p)).map} :
               \E px \in {previewPixel(x, y, Some(l), map, getDynamicRegions(l, map))} :
                   sample' = Some([photo |-> p, indicators |-> l, palette |-> palette,
                                   x |-> x, y |-> y, regionId |-> px.regionId,
                                   indicator |-> px.indicator,
                                   data |-> previewWrite(px, palette)])
    /\ UNCHANGED <<normVars, rngVars, shuffleVars, mapVars, regionVars, polyVars,
                   dynVars, warpVars, pipeVars, nearVars, seedVars, colourVars,
                   neutralVars, galleryVars>>

PreviewNext == renderPixel

SpecPreview == PreviewInit /\ [][PreviewNext]_vars

\* C25: in the warp-mode preview pixel loop, a pixel is written if and only
\* if the region resolved for it is not Background and has an assigned
\* indicator; every written pixel gets alpha 255 and every skipped pixel stays
\* fully transparent (unset).
C25_WrittenIffIndicatorRegion ==
    sample # None =>
        LET eligible == sample[1].regionId # "Background" /\ sample[1].indicator # None
        IN  /\ eligible => sample[1].data[4] = 255
            /\ ~eligible => sample[1].data = TransparentBlack

\* a Background pixel whose region has an indicator is left unset, and a
\* pixel of a face region is written
C25_Witness ==
    /\ sample # None
    /\ sample[1].regionId = "Background" /\ sample[1].indicator # None
    /\ sample[1].data = TransparentBlack

(***************************************************************************)
(* IEEE doubles.  Where a claim turns on whether two numbers are the same  *)
(* double, the number is modelled as the double itself: a sign and a       *)
(* magnitude counted in units of 2^-64, written as five limbs of 15 bits   *)
(* (least significant first), so that every double from 2^-11 up to 8 is   *)
(* exact.  Each operation computes the exact result and rounds it to 53    *)
(* significant bits, ties to even, as the hardware does.                   *)
(***************************************************************************)
LimbBase == Pow2(15)
BigZero == <<0, 0, 0, 0, 0>>
BigLimbs == Len(BigZero)

RECURSIVE bigAddLoop(_, _, _, _)
bigAddLoop(a, b, i, carry) ==
    IF i > BigLimbs THEN <<>>
    ELSE LET t == a[i] + b[i] + carry
         IN  <<t % LimbBase>> \o bigAddLoop(a, b, i + 1, t \div LimbBase)

BigAdd(a, b) == bigAddLoop(a, b, 1, 0)

RECURSIVE bigSubLoop(_, _, _, _)
bigSubLoop(a, b, i, borrow) ==
    IF i > BigLimbs THEN <<>>
    ELSE LET t == a[i] - b[i] - borrow
         IN  IF t < 0 THEN <<t + LimbBase>> \o bigSubLoop(a, b, i + 1, 1)
             ELSE <<t>> \o bigSubLoop(a, b, i + 1, 0)

\* a - b for a >= b
BigSub(a, b) == bigSubLoop(a, b, 1, 0)

BigLess(a, b) ==
    \E i \in 1..BigLimbs :
        /\ a[i] < b[i]
        /\ \A j \in (i + 1)..BigLimbs : a[j] = b[j]

RECURSIVE bigDivLoop(_, _, _, _, _)
bigDivLoop(a, n, i, rem, q) ==
    IF i = 0 THEN [q |-> q, rem |-> rem]
    ELSE LET cur == rem * LimbBase + a[i]
         IN  bigDivLoop(a, n, i - 1, cur % n, [q EXCEPT ![i] = cur \div n])

\* quotient and remainder of a by a small n
BigDivSmall(a, n) == bigDivLoop(a, n, BigLimbs, 0, BigZero)

BitLength(a) ==
    IF a = BigZero THEN 0
    ELSE LET top == CHOOSE i \in 1..BigLimbs :
                        a[i] # 0 /\ \A j \in (i + 1)..BigLimbs : a[j] = 0
             bits == CHOOSE k \in 1..15 : a[top] \div Pow2(k - 1) = 1
         IN  15 * (top - 1) + bits

\* round-to-nearest, ties-to-even at 53 significant bits; sticky says that
\* the exact value lies strictly above a (digits were already dropped)
RoundToNearestEven(a, sticky) ==
    LET length == BitLength(a)
    IN  IF length <= 53 THEN a
        ELSE LET ulp == Pow2(length - 53)
                 low == a[1] % ulp
                 odd == (a[1] \div ulp) % 2 = 1
                 down == [a EXCEPT ![1] = a[1] - low]
                 up == \/ 2 * low > ulp
                       \/ 2 * low = ulp /\ (sticky \/ odd)
             IN  IF up THEN BigAdd(down, [BigZero EXCEPT ![1] = ulp]) ELSE down

Double(neg, mag) == [neg |-> neg /\ mag # BigZero, mag |-> mag]
DZero == Double(FALSE, BigZero)

\* the double a numeric literal n/d denotes (n < 2048)
DOfQuotient(n, d) ==
    LET exact == BigDivSmall([BigZero EXCEPT ![BigLimbs] = n * Pow2(4)], d)
    IN  Double(FALSE, RoundToNearestEven(exact.q, exact.rem # 0))

DOne == DOfQuotient(1, 1)
DHalf == DOfQuotient(1, 2)

DNeg(x) == Double(~x.neg, x.mag)

DAdd(x, y) ==
    IF x.neg = y.neg
    THEN Double(x.neg, RoundToNearestEven(BigAdd(x.mag, y.mag), FALSE))
    ELSE IF BigLess(x.mag, y.mag)
         THEN Double(y.neg, RoundToNearestEven(BigSub(y.mag, x.mag), FALSE))
         ELSE Double(x.neg, RoundToNearestEven(BigSub(x.mag, y.mag), FALSE))

DSub(x, y) == DAdd(x, DNeg(y))

DLess(x, y) ==
    IF x.neg # y.neg THEN x.neg
    ELSE IF x.neg THEN BigLess(y.mag, x.mag) ELSE BigLess(x.mag, y.mag)

\* x / n for a small positive integer n
DDivInt(x, n) ==
    LET exact == BigDivSmall(x.mag, n)
    IN  Double(x.neg, RoundToNearestEven(exact.q, exact.rem # 0))

\* a product outside the cases below is not modelled
DUnmodelled == [neg |-> FALSE, mag |-> <<>>]

\* x * y where a factor is 0, 1 or 1/2: these products are exact
DTimes(x, y) ==
    IF x = DZero \/ y = DZero THEN DZero
    ELSE IF x.mag = DOne.mag THEN Double(x.neg # y.neg, y.mag)
    ELSE IF y.mag = DOne.mag THEN Double(x.neg # y.neg, x.mag)
    ELSE IF x.mag = DHalf.mag THEN Double(x.neg # y.neg, BigDivSmall(y.mag, 2).q)
    ELSE IF y.mag = DHalf.mag THEN Double(x.neg # y.neg, BigDivSmall(x.mag, 2).q)
    ELSE DUnmodelled

\* Math.PI
DMathPI == Double(FALSE, <<0, 2886, 10786, 8699, 50>>)

\* Math.cos and Math.sin at 0
DMathCos(x) == IF x = DZero THEN DOne ELSE DUnmodelled
DMathSin(x) == IF x = DZero THEN DZero ELSE DUnmodelled

(***************************************************************************)
(* getDynamicRegions in doubles.  The catalog's coordinates are literals   *)
(* with two decimals; each is the double nearest to it.                    *)
(***************************************************************************)
DPoint(p) == [x |-> DOfQuotient(p.x \div Cent, 100), y |-> DOfQuotient(p.y \div Cent, 100)]
DPolygon(polygon) == [i \in DOMAIN polygon |-> DPoint(polygon[i])]

\* polygon.reduce((acc, p) => acc + p.x, 0), and the same for y
RECURSIVE DSumX(_, _)
DSumX(polygon, acc) ==
    IF polygon = <<>> THEN acc ELSE DSumX(Tail(polygon), DAdd(acc, Head(polygon).x))
RECURSIVE DSumY(_, _)
DSumY(polygon, acc) ==
    IF polygon = <<>> THEN acc ELSE DSumY(Tail(polygon), DAdd(acc, Head(polygon).y))
\* polygon.reduce((min, p) => Math.min(min, p.y), 1)
RECURSIVE DMinY(_, _)
DMinY(polygon, min) ==
    IF polygon = <<>> THEN min
    ELSE DMinY(Tail(polygon), IF DLess(Head(polygon).y, min) THEN Head(polygon).y ELSE min)

\* a stretch whose scale starts from one half instead of one
doubleForeheadHalved(polygon, magnitude) ==
    LET shiftY == DTimes(DSub(magnitude, DHalf), DOfQuotient(15, 100))
        scaleY == DAdd(DHalf, DTimes(DSub(magnitude, DHalf), DOfQuotient(6, 10)))
        topY == DMinY(polygon, DOne)
    IN  [i \in DOMAIN polygon |->
            [x |-> polygon[i].x,
             y |-> DSub(DAdd(topY, DTimes(DSub(polygon[i].y, topY), scaleY)), shiftY)]]

\* Forehead: p.y = topY + (p.y - topY) * scaleY - shiftY
doubleForehead(polygon, magnitude) ==
    LET shiftY == DTimes(DSub(magnitude, DHalf), DOfQuotient(15, 100))
        scaleY == DAdd(DOne, DTimes(DSub(magnitude, DHalf), DOfQuotient(6, 10)))
        topY == DMinY(polygon, DOne)
    IN  [i \in DOMAIN polygon |->
            [x |-> polygon[i].x,
             y |-> DSub(DAdd(topY, DTimes(DSub(polygon[i].y, topY), scaleY)), shiftY)]]

\* Mouth: p.x = centerX + (p.x - centerX) * scaleX, and the same for y
doubleMouth(polygon, magnitude) ==
    LET scaleX == DAdd(DOfQuotient(6, 10), DTimes(magnitude, DOfQuotient(8, 10)))
        scaleY == DAdd(DOfQuotient(8, 10), DTimes(magnitude, DOfQuotient(4, 10)))
        centerX == DDivInt(DSumX(polygon, DZero), Len(polygon))
        centerY == DDivInt(DSumY(polygon, DZero), Len(polygon))
    IN  [i \in DOMAIN polygon |->
            [x |-> DAdd(centerX, DTimes(DSub(polygon[i].x, centerX), scaleX)),
             y |-> DAdd(centerY, DTimes(DSub(polygon[i].y, centerY), scaleY))]]

\* Chin: p.x += (p.y - 0.75) * skewX [* sideFactor]
doubleChin(polygon, magnitude) ==
    LET skewX == DTimes(DSub(magnitude, DHalf), DOfQuotient(2, 10))
    IN  [i \in DOMAIN polygon |->
            LET p == polygon[i]
                sideFactor == IF DLess(DHalf, p.x) THEN DOfQuotient(15, 10) ELSE DHalf
                skew == DTimes(DSub(p.y, DOfQuotient(75, 100)), skewX)
            IN  IF DLess(DHalf, magnitude)
                THEN [x |-> DAdd(p.x, DTimes(skew, sideFactor)), y |-> p.y]
                ELSE [x |-> DAdd(p.x, skew), y |-> p.y]]

\* Eyes, Cheeks: rotation about the centre, asymmetric scaling above 0.6
doubleTilt(polygon, magnitude) ==
    LET angleDeg == DTimes(DSub(magnitude, DHalf), DOfQuotient(30, 1))
        angleRad == DDivInt(DTimes(angleDeg, DMathPI), 180)
        cos == DMathCos(angleRad)
        sin == DMathSin(angleRad)
        centerX == DDivInt(DSumX(polygon, DZero), Len(polygon))
        centerY == DDivInt(DSumY(polygon, DZero), Len(polygon))
    IN  [i \in DOMAIN polygon |->
            LET p == polygon[i]
                dx == DSub(p.x, centerX)
                dy == DSub(p.y, centerY)
                rx == DAdd(centerX, DSub(DTimes(dx, cos), DTimes(dy, sin)))
                ry == DAdd(centerY, DAdd(DTimes(dx, sin), DTimes(dy, cos)))
                scaleFactor == IF DLess(p.x, DHalf) THEN DOfQuotient(12, 10)
                               ELSE DOfQuotient(9, 10)
            IN  IF DLess(DOfQuotient(6, 10), magnitude)
                THEN [x |-> DAdd(centerX, DTimes(DSub(rx, centerX), scaleFactor)),
                      y |-> ry]
                ELSE [x |-> rx, y |-> ry]]

\* the callback of FACE_REGIONS.map in doubles, for an indicator whose
\* magnitude is the double nearest to its exact value
doubleRegion(region, indicator) ==
    IF indicator = None THEN DPolygon(region.polygon)
    ELSE LET exact == normalizeIndicator(indicator[1])
             magnitude == DOfQuotient(exact.n, exact.d)
             shiftedPolygon == DPolygon(region.polygon)
         IN  IF region.id = "Forehead" THEN doubleForehead(shiftedPolygon, magnitude)
             ELSE IF region.id = "Mouth" THEN doubleMouth(shiftedPolygon, magnitude)
             ELSE IF region.id = "Chin" THEN doubleChin(shiftedPolygon, magnitude)
             ELSE IF region.id = "Eyes" \/ region.id = "Cheeks"
                  THEN doubleTilt(shiftedPolygon, magnitude)
             ELSE shiftedPolygon

\* the polygons of getDynamicRegions(indicators, regionMap) as doubles
getDynamicRegionsDouble(map) ==
    [k \in DOMAIN FACE_REGIONS |-> doubleRegion(FACE_REGIONS[k], map[FACE_REGIONS[k].id])]

(***************************************************************************)
(* SpecNeutral: getDynamicRegions at the neutral magnitude, in doubles     *)
(***************************************************************************)
\* MOCK_INDICATORS with every slider at the middle of its range
SlidersAtMiddle ==
    [i \in DOMAIN MOCK_INDICATORS |->
        [MOCK_INDICATORS[i] EXCEPT
            !.current = (MOCK_INDICATORS[i].min + MOCK_INDICATORS[i].max) \div 2]]
\* that list and its prefixes down to the empty one
NeutralLists == {SubSeq(SlidersAtMiddle, 1, n) : n \in 0..Len(SlidersAtMiddle)}

\* every indicator regionMap assigns has magnitude exactly 0.5
AllNeutral(map) ==
    \A id \in RegionType :
        map[id] # None => RatEq(normalizeIndicator(map[id][1]), RatHalf)

NeutralInit ==
    /\ NeutralIdle
    /\ NormIdle /\ RngIdle /\ ShuffleIdle /\ MapIdle /\ RegionIdle /\ PolyIdle
    /\ DynIdle /\ WarpIdle /\ PipeIdle /\ SampleIdle /\ NearIdle /\ SeedIdle
    /\ ColourIdle /\ GalleryIdle

\* const dynamicRegions = getDynamicRegions(config.indicators, regionMap),
\* for a photo and a list whose sliders are all at the middle
callAtNeutral ==
    /\ neutral = None
    /\ \E p \in Photos \ {<<>>}, l \in NeutralLists :
           \E map \in {regionMapMemo(p, Some(l), seedMemo(p)).map} :
               /\ AllNeutral(map)
               /\ neutral' = Some([regionMap |-> map,
                                   regions |-> getDynamicRegionsDouble(map)])
    /\ UNCHANGED <<normVars, rngVars, shuffleVars, mapVars, regionVars, polyVars,
                   dynVars, warpVars, pipeVars, cmpVars, nearVars, seedVars,
                   colourVars, galleryVars>>

NeutralNext == callAtNeutral

SpecNeutral == NeutralInit /\ [][NeutralNext]_vars

\* the catalog polygon at index k, as doubles
TemplateDouble(k) == DPolygon(FACE_REGIONS[k].polygon)
\* one unit in the last place of a double between 1/8 and 1/4: 2^-55
UlpOfEighth == Double(FALSE, [BigZero EXCEPT ![1] = Pow2(9)])
CheeksIndex == CHOOSE k \in DOMAIN FACE_REGIONS : FACE_REGIONS[k].id = "Cheeks"

\* C27 as stated: when every assigned indicator has magnitude exactly 0.5,
\* every dynamic polygon equals its template polygon vertex for vertex.
C27_NeutralIsIdentity ==
    neutral # None /\ AllNeutral(neutral[1].regionMap) =>
        \A k \in DOMAIN FACE_REGIONS : neutral[1].regions[k] = TemplateDouble(k)

\* C27: when every assigned indicator has magnitude exactly 0.5, every
\* dynamic polygon equals its template polygon vertex for vertex, except that
\* the x of the first Cheeks vertex comes back one unit in the last place
\* above the template's 0.15 whenever Cheeks has an indicator.
C27_NeutralUpToRounding ==
    neutral # None /\ AllNeutral(neutral[1].regionMap) =>
        \A k \in DOMAIN FACE_REGIONS :
            \A i \in DOMAIN FACE_REGIONS[k].polygon :
                LET out == neutral[1].regions[k][i]
                    template == TemplateDouble(k)[i]
                    rounded == k = CheeksIndex /\ i = 1
                               /\ neutral[1].regionMap["Cheeks"] # None
                IN  /\ out.y = template.y
                    /\ out.x = IF rounded THEN DAdd(template.x, UlpOfEighth)
                               ELSE template.x

\* every region has an indicator at the neutral magnitude, and the Cheeks
\* polygon differs from its template
C27_Witness ==
    /\ neutral # None
    /\ \A id \in RegionType : neutral[1].regionMap[id] # None
    /\ AllNeutral(neutral[1].regionMap)
    /\ neutral[1].regions[CheeksIndex] # TemplateDouble(CheeksIndex)

(***************************************************************************)
(* SpecMap, continued: which regions and which indicators the map holds    *)
(***************************************************************************)
\* C28: with a photo and a non-empty indicator list of length n, every one
\* of the nine regions, Background included, is assigned an indicator, and
\* when n <= 9 every indicator of the list is assigned to at least one
\* region; with a null photo, a null list or an empty list no region has an
\* indicator.
C28_EveryRegionAssigned ==
    LET n == IF config = None THEN 0 ELSE Len(config[1])
    IN  IF photo # <<>> /\ n > 0
        THEN /\ Cardinality(RegionType) = 9
             /\ \A id \in RegionType : regionMap[id] # None
             /\ n <= 9 =>
                    \A i \in 1..n : \E id \in RegionType :
                        regionMap[id] = Some(config[1][i])
        ELSE \A id \in RegionType : regionMap[id] = None

\* a photo and the six indicators: Background has one of them
C28_Witness ==
    /\ photo # <<>> /\ config # None
    /\ Len(config[1]) = 6
    /\ regionMap["Background"] # None

\* C29: a Shuffle click never changes the region-to-indicator assignment:
\* the map after the remount is the map before it, and the seed changes only
\* when the photo does.
C29_ShuffleKeepsAssignment ==
    [][/\ shuffleKey' = shuffleKey + 1 => regionMap' = regionMap /\ seed' = seed
       /\ photo' = photo => seed' = seed]_vars

\* a Shuffle click has remounted the canvas of a photo whose six indicators
\* are mapped
C29_Witness ==
    /\ shuffleKey > 0
    /\ photo # <<>> /\ config # None
    /\ Len(config[1]) = 6
    /\ \A id \in RegionType : regionMap[id] # None

(***************************************************************************)
(* SpecGallery: the App with the snapshot gallery.  A render that was      *)
(* started stays in flight until its final composite loads and calls       *)
(* onCapture, whatever the App has done in the meantime.                   *)
(***************************************************************************)
MaxCaptures == 6
MaxInFlight == 1
\* the photo uploaded and the lists Controls applies
GalleryPhotos == {<<97>>}
GalleryLists == {MOCK_INDICATORS, SlidersAt(TRUE)}

GalleryInit ==
    /\ photo = <<>>
    /\ config = None
    /\ shuffleKey = 0
    /\ seed = seedMemo(<<>>)
    /\ regionMap = regionMapMemo(<<>>, None, seedMemo(<<>>)).map
    /\ GalleryIdle
    /\ NormIdle /\ RngIdle /\ ShuffleIdle /\ RegionIdle /\ PolyIdle /\ DynIdle
    /\ WarpIdle /\ PipeIdle /\ SampleIdle /\ NearIdle /\ SeedIdle /\ ColourIdle
    /\ NeutralIdle

\* the effect of PreviewCanvas on [photo, config], and on mount: it starts a
\* render when there is a photo, a list and no override image
renderEffect(p, cfg, override) ==
    IF p # <<>> /\ cfg # None /\ override = None
    THEN /\ Len(inFlight) < MaxInFlight
         /\ inFlight' = Append(inFlight, [photo |-> p, indicators |-> cfg[1]])
    ELSE inFlight' = inFlight

\* Upload: onUpload = setPhoto
setPhoto ==
    \E p \in GalleryPhotos :
        /\ p # photo
        /\ photo' = p
        /\ Rendered(p, config)
        /\ renderEffect(p, config, renderedImage)
        /\ UNCHANGED <<shuffleKey, renderedImage, snapshots, captures, normVars,
                       rngVars, shuffleVars, regionVars, polyVars, dynVars,
                       warpVars, pipeVars, cmpVars, nearVars, seedVars,
                       colourVars, neutralVars>>

\* Controls -> onUpdate: setConfig(newConfig), setRenderedImage(null)
onUpdate ==
    \E list \in GalleryLists :
        /\ photo # <<>>
        /\ renderedImage' = None
        /\ Rendered(photo, Some(list))
        /\ renderEffect(photo, Some(list), None)
        /\ UNCHANGED <<photo, shuffleKey, snapshots, captures, normVars, rngVars,
                       shuffleVars, regionVars, polyVars, dynVars, warpVars,
                       pipeVars, cmpVars, nearVars, seedVars, colourVars,
                       neutralVars>>

\* App.handleShuffle with the gallery: the override image is cleared and the
\* key remounts PreviewCanvas.  The renders of the unmounted instance find
\* canvasRef.current null and throw before they reach onCapture; the new
\* instance runs its effect on mount
handleShuffleGallery ==
    /\ photo # <<>>
    /\ shuffleKey < MaxShuffleKey
    /\ shuffleKey' = shuffleKey + 1
    /\ renderedImage' = None
    /\ Rendered(photo, config)
    /\ inFlight' = IF config # None
                   THEN <<[photo |-> photo, indicators |-> config[1]]>>
                   ELSE <<>>
    /\ UNCHANGED <<photo, snapshots, captures, normVars, rngVars, shuffleVars,
                   regionVars, polyVars, dynVars, warpVars, pipeVars, cmpVars,
                   nearVars, seedVars, colourVars, neutralVars>>

\* App.handleReset with the gallery; a key that changes remounts
\* PreviewCanvas, a key that was 0 already leaves the instance and its
\* renders in flight
handleResetGallery ==
    /\ photo' = <<>>
    /\ shuffleKey' = 0
    /\ renderedImage' = None
    /\ snapshots' = <<>>
    /\ Rendered(<<>>, config)
    /\ inFlight' = IF shuffleKey # 0 THEN <<>> ELSE inFlight
    /\ UNCHANGED <<captures, normVars, rngVars, shuffleVars, regionVars,
                   polyVars, dynVars, warpVars, pipeVars, cmpVars, nearVars,
                   seedVars, colourVars, neutralVars>>

\* an updater that drops the new snapshot when the list is full
setSnapshotsKeepOldest(prev, newSnap) ==
    LET updated == Append(prev, newSnap)
    IN  IF Len(updated) > 5 THEN SubSeq(updated, 1, 5) ELSE updated

\* setSnapshots(prev => { updated = [...prev, newSnap];
\*                        if (updated.length > 5) updated.shift(); ... })
setSnapshots(prev, newSnap) ==
    LET updated == Append(prev, newSnap)
    IN  IF Len(updated) > 5 THEN Tail(updated) ELSE updated

\* the sequence without its i-th element
RemoveAt(s, i) == SubSeq(s, 1, i - 1) \o SubSeq(s, i + 1, Len(s))

\* edgeImg.onload of a render in flight: onCapture(canvas.toDataURL(), config)
handleCapture ==
    \E i \in DOMAIN inFlight :
        LET newSnap == [id |-> captures + 1,
                        image |-> inFlight[i],
                        config |-> Some(inFlight[i].indicators)]
        IN  /\ captures < MaxCaptures
            /\ captures' = captures + 1
            /\ snapshots' = setSnapshots(snapshots, newSnap)
            /\ inFlight' = RemoveAt(inFlight, i)
            /\ UNCHANGED <<renderedImage, normVars, rngVars, shuffleVars, mapVars,
                           regionVars, polyVars, dynVars, warpVars, pipeVars,
                           cmpVars, nearVars, seedVars, colourVars, neutralVars>>

\* SnapshotGallery -> onRestore(snap): setConfig(snap.config),
\* setRenderedImage(snap.image); the override image keeps the effect from
\* rendering
handleRestore ==
    \E k \in DOMAIN snapshots :
        /\ renderedImage' = Some(snapshots[k].image)
        /\ Rendered(photo, snapshots[k].config)
        /\ renderEffect(photo, snapshots[k].config, renderedImage')
        /\ UNCHANGED <<photo, shuffleKey, snapshots, captures, normVars, rngVars,
                       shuffleVars, regionVars, polyVars, dynVars, warpVars,
                       pipeVars, cmpVars, nearVars, seedVars, colourVars,
                       neutralVars>>

GalleryNext ==
    \/ setPhoto
    \/ onUpdate
    \/ handleShuffleGallery
    \/ handleResetGallery
    \/ handleCapture
    \/ handleRestore

SpecGallery == GalleryInit /\ [][GalleryNext]_vars

\* C30: the snapshot list never holds more than 5 entries; a capture appends
\* the new snapshot at the end and evicts the oldest one when the list would
\* otherwise hold 6; Reset empties the list; Restore leaves it unchanged.
C30_GalleryKeepsLastFive ==
    [][/\ Len(snapshots') <= 5
       /\ handleCapture =>
              /\ snapshots' # <<>>
              /\ snapshots'[Len(snapshots')].id = captures'
              /\ SubSeq(snapshots', 1, Len(snapshots') - 1)
                     = IF Len(snapshots) < 5 THEN snapshots ELSE Tail(snapshots)
       /\ handleResetGallery => snapshots' = <<>>
       /\ handleRestore => snapshots' = snapshots]_vars

\* a sixth capture has evicted the first snapshot of a full list
C30_Witness ==
    /\ Len(snapshots) = 5
    /\ captures = 6
    /\ snapshots[1].id = 2
    /\ snapshots[5].id = 6
====
